---- MODULE Spec2Model ----
(***************************************************************************)
(* A state-machine model of the JNI glue layer vgmplayer_jni.cpp: the      *)
(* process-wide playback session (one backend adapter at a time), the      *)
(* transport operations, the FFT ring buffer and the tag normaliser.       *)
(*                                                                         *)
(* The five backend libraries (libvgm, libgme, libopenmpt, libkss,         *)
(* libADLMIDI) are external.  Each is modelled at its interface: an object *)
(* with a position, an end-of-stream state and the settings the glue layer *)
(* pushes into it.  What a file contains is fixed by the catalogue Files.  *)
(*                                                                         *)
(* Strings the code inspects character by character (paths) are sequences  *)
(* of one-character strings.  Floating-point values are exact rationals:   *)
(* a ring-buffer slot holds the numerator of sample/65536, and the         *)
(* playback speed is held in hundredths.                                   *)
(***************************************************************************)
EXTENDS Integers, Sequences, FiniteSets, TLC

(***************************************************************************)
(* Program constants.                                                      *)
(***************************************************************************)
FFT_SIZE == 1024

MAX_FRAMES == 4096

INT16_MAX == 32767

INT16_MIN == -32768

INT32_MAX == 2147483647

INT32_MIN == (-2147483647) - 1

DEFAULT_SAMPLE_RATE == 44100

\* nGetDeviceVolume's fall-through value 0x100.
DEFAULT_DEVICE_VOLUME == 256

\* Capacity of lowerExt (char lowerExt[8]): at most 7 characters are copied.
LOWER_EXT_MAX == 7

(***************************************************************************)
(* Bounds of the model.                                                    *)
(***************************************************************************)
\* FillBuffer is offered to a session only while the write cursor stays
\* within this many frames.
MaxExtraFrames == 3

\* Largest track index SetTrack is called with (the smallest is -1).
MaxTrackArg == 4

\* Frames rendered by short calls before a long one.
MaxLeadFrames == 1

(***************************************************************************)
(* Characters and C string helpers.                                        *)
(***************************************************************************)
UpperChars == <<"A","B","C","D","E","F","G","H","I","J","K","L","M",
                "N","O","P","Q","R","S","T","U","V","W","X","Y","Z">>

LowerChars == <<"a","b","c","d","e","f","g","h","i","j","k","l","m",
                "n","o","p","q","r","s","t","u","v","w","x","y","z">>

\* A tolower that leaves every character as it is: the property of C23 must
\* tell it from tolower.
tolowerKeepingCase(c) == c

tolower(c) ==
  IF \E i \in 1..Len(UpperChars) : UpperChars[i] = c
  THEN LowerChars[CHOOSE i \in 1..Len(UpperChars) : UpperChars[i] = c]
  ELSE c

\* strrchr(path, ch): index of the last occurrence of ch, 0 when there is none.
strrchr(path, ch) ==
  IF \E i \in 1..Len(path) : path[i] = ch
  THEN CHOOSE i \in 1..Len(path) :
         /\ path[i] = ch
         /\ \A j \in (i+1)..Len(path) : path[j] # ch
  ELSE 0

\* The loop "for (i = 0; ext[i] && i < 7; i++) lowerExt[i] = tolower(ext[i])"
\* applied to the text after the last dot.
lowerExt(path) ==
  LET dot == strrchr(path, ".")
      n   == IF Len(path) - dot < LOWER_EXT_MAX THEN Len(path) - dot
                                               ELSE LOWER_EXT_MAX
  IN [i \in 1..n |-> tolower(path[dot + i])]

\* The libgme list as it was with "kss" in it: the property of C22 must tell
\* it from GmeExts.
GmeExtsWithKss ==
  { <<"n","s","f">>, <<"n","s","f","e">>, <<"g","b","s">>, <<"g","y","m">>,
    <<"h","e","s">>, <<"a","y">>, <<"s","a","p">>, <<"s","p","c">>,
    <<"k","s","s">> }

GmeExts == { <<"n","s","f">>, <<"n","s","f","e">>, <<"g","b","s">>,
             <<"g","y","m">>, <<"h","e","s">>, <<"a","y">>,
             <<"s","a","p">>, <<"s","p","c">> }

KssExts == { <<"k","s","s">>, <<"m","g","s">>, <<"b","g","m">>,
             <<"o","p","x">>, <<"m","p","k">>, <<"m","b","m">> }

OpenmptExts ==
  { <<"m","o","d">>, <<"x","m">>, <<"s","3","m">>, <<"i","t">>,
    <<"m","p","t","m">>, <<"6","6","9">>, <<"a","m","f">>, <<"a","m","s">>,
    <<"d","b","m">>, <<"d","i","g","i">>, <<"d","m","f">>, <<"d","s","m">>,
    <<"f","a","r">>, <<"g","d","m">>, <<"i","m","f">>, <<"j","2","b">>,
    <<"m","d","l">>, <<"m","e","d">>, <<"m","t","2">>, <<"m","t","m">>,
    <<"o","k","t">>, <<"p","l","m">>, <<"p","s","m">>, <<"p","t","m">>,
    <<"r","t","m">>, <<"s","t","m">>, <<"u","l","t">>, <<"u","m","x">>,
    <<"w","o","w">> }

MidiExts == { <<"m","i","d">>, <<"m","i","d","i">>, <<"r","m","i">>,
              <<"s","m","f">> }

isGmeFormat(path) ==
  /\ strrchr(path, ".") # 0
  /\ lowerExt(path) \in GmeExts

isKssFormat(path) ==
  /\ strrchr(path, ".") # 0
  /\ lowerExt(path) \in KssExts

isOpenmptFormat(path) ==
  /\ strrchr(path, ".") # 0
  /\ lowerExt(path) \in OpenmptExts

isMidiFormat(path) ==
  /\ strrchr(path, ".") # 0
  /\ lowerExt(path) \in MidiExts


(***************************************************************************)
(* The file catalogue: what each path holds, as the backend libraries      *)
(* report it.  One entry per case the handlers distinguish.                *)
(***************************************************************************)
NoInfo == [song |-> "", game |-> "", system |-> "", author |-> "",
           copyright |-> "", dumper |-> "", comment |-> ""]

SomeInfo == [song |-> "Song", game |-> "Game", system |-> "Sys",
             author |-> "Auth", copyright |-> "1990", dumper |-> "Dump",
             comment |-> "Note"]

\* Lengths in milliseconds as gme_track_info reports them.
NoLengths == [play_length |-> -1, intro_length |-> -1, loop_length |-> -1]

DefaultFile ==
  [ readable   |-> TRUE,     \* fopen / DataLoader_Load succeed
    format     |-> "vgm",    \* what the contents are: "gme", "kss", "mod",
                             \* "midi", "vgm" or "junk"
    trackCount |-> 1,        \* gme_track_count
    startErr   |-> {},       \* tracks gme_start_track refuses
    infoErr    |-> {},       \* tracks gme_track_info refuses
    playErr    |-> FALSE,    \* gme_play reports an emulation error
    lengths    |-> <<NoLengths>>,   \* per track, index track + 1
    info       |-> NoInfo,
    trk_min    |-> 0,        \* KSS header track range
    trk_max    |-> 0,
    kssTitle   |-> "",
    kssMode    |-> 0,
    kssInfo    |-> <<>>,     \* KSSINFO entries [song, time_in_ms, title]
    meta       |-> [title |-> "", message |-> "", tracker |-> "",
                    artist |-> "", date |-> ""],   \* openmpt metadata
    endFrame   |-> 2,        \* frames until the native end-of-stream
    devs       |-> <<>>,     \* libvgm devices [id, name, volume]
    gd3Ofs     |-> 0,        \* VGM header
    eofOfs     |-> 0,
    data       |-> <<>> ]    \* VGM file bytes, offset i at index i + 1

P_a_nsf == <<"a",".","n","s","f">>

P_b_NSF == <<"b",".","N","S","F">>

P_c_spc == <<"c",".","s","p","c">>

P_k_kss == <<"k",".","k","s","s">>

P_m_mbm == <<"m",".","M","b","m">>

P_q_mgs == <<"q",".","m","g","s">>

P_t_mod == <<"t",".","m","o","d">>

P_u_xm == <<"u",".","x","m">>

P_s_mid == <<"s",".","m","i","d">>

P_r_rmi == <<"r",".","r","m","i">>

P_v_vgm == <<"v",".","v","g","m">>

P_w_vgz == <<"w",".","v","g","z">>

P_noext == <<"n","o","e","x","t">>

P_dir_z == <<"d",".","d","/","z">>

\* Files longer than a few frames, for positioning.
P_l_gbs == <<"l",".","g","b","s">>

P_x_it == <<"x",".","i","t">>

P_y_smf == <<"y",".","s","m","f">>

\* A VGM log whose name has no dot.
P_song == <<"s","o","n","g">>

Paths == { P_a_nsf, P_b_NSF, P_c_spc, P_k_kss, P_m_mbm, P_q_mgs, P_t_mod,
           P_u_xm, P_s_mid, P_r_rmi, P_v_vgm, P_w_vgz, P_noext, P_dir_z }

Files(path) ==
  CASE path = P_a_nsf ->
         [DefaultFile EXCEPT !.format = "gme", !.trackCount = 5,
            !.startErr = {2},
            !.lengths = << [play_length |-> 5000, intro_length |-> -1,
                            loop_length |-> -1],
                           [play_length |-> 60000, intro_length |-> 10000,
                            loop_length |-> 20000],
                           [play_length |-> 45000, intro_length |-> 0,
                            loop_length |-> 40000],
                           [play_length |-> 45500, intro_length |-> 0,
                            loop_length |-> 40000],
                           [play_length |-> 100000, intro_length |-> 5000,
                            loop_length |-> 10000] >>,
            !.info = SomeInfo]
    [] path = P_b_NSF ->
         [DefaultFile EXCEPT !.format = "gme", !.trackCount = 2,
            !.startErr = {0},
            !.lengths = <<NoLengths, NoLengths>>]
    [] path = P_c_spc -> [DefaultFile EXCEPT !.format = "junk"]
    [] path = P_k_kss ->
         [DefaultFile EXCEPT !.format = "kss", !.trk_min = 1, !.trk_max = 3,
            !.kssTitle = "Kss", !.kssMode = 1,
            !.kssInfo = << [song |-> 1, time_in_ms |-> 0, title |-> "One"],
                           [song |-> 2, time_in_ms |-> 40000,
                            title |-> "Two"],
                           [song |-> 3, time_in_ms |-> 5000,
                            title |-> "Three"] >>]
    [] path = P_m_mbm ->
         [DefaultFile EXCEPT !.format = "kss", !.trk_min = 1, !.trk_max = 0,
            !.endFrame = -1]
    [] path = P_q_mgs -> [DefaultFile EXCEPT !.format = "junk"]
    [] path = P_t_mod ->
         [DefaultFile EXCEPT !.format = "mod",
            !.meta = [title |-> "Mod", message |-> "Msg",
                      tracker |-> "PT", artist |-> "Art", date |-> "1991"]]
    [] path = P_u_xm -> [DefaultFile EXCEPT !.format = "mod", !.readable = FALSE]
    [] path = P_s_mid -> [DefaultFile EXCEPT !.format = "midi"]
    [] path = P_r_rmi -> [DefaultFile EXCEPT !.format = "junk"]
    [] path = P_v_vgm ->
         [DefaultFile EXCEPT
            !.gd3Ofs = 4, !.eofOfs = 58,
            !.data = << 86, 103, 109, 32, 71, 100, 51, 32, 0, 1, 0, 0,
                        42, 0, 0, 0, 84, 0, 0, 0, 66, 48, 0, 0, 71, 0, 0, 0,
                        0, 0, 83, 0, 0, 0, 0, 0, 65, 0, 233, 0, 0, 0, 0, 0,
                        57, 0, 49, 0, 0, 0, 68, 0, 0, 0, 78, 0, 0, 0 >>,
            !.devs = << [id |-> 0, name |-> "YM2612", volume |-> 256],
                        [id |-> 1, name |-> "SN76489", volume |-> 128],
                        [id |-> 0, name |-> "YM2612", volume |-> 256] >>]
    [] path = P_w_vgz -> [DefaultFile EXCEPT !.endFrame = FFT_SIZE + 8]
    [] path = P_noext -> [DefaultFile EXCEPT !.readable = FALSE]
    [] path = P_l_gbs ->
         [DefaultFile EXCEPT !.format = "gme", !.endFrame = -1,
            !.lengths = << [play_length |-> 60000, intro_length |-> -1,
                            loop_length |-> -1] >>]
    [] path = P_x_it -> [DefaultFile EXCEPT !.format = "mod", !.endFrame = 100]
    [] path = P_y_smf ->
         [DefaultFile EXCEPT !.format = "midi", !.endFrame = 100]
    [] path = P_dir_z -> [DefaultFile EXCEPT !.format = "junk"]
    [] path = P_song -> DefaultFile
    [] OTHER -> [DefaultFile EXCEPT !.readable = FALSE, !.format = "junk"]

(***************************************************************************)
(* The session: the file-scope globals of vgmplayer_jni.cpp.               *)
(***************************************************************************)
VARIABLES
  gPlayerType,       \* "NONE", "LIBVGM", "LIBGME", "LIBOPENMPT", "LIBKSS", "LIBADLMIDI"
  gVgmPlayer,        \* VGMPlayer object or NULL
  gGmePlayer,        \* Music_Emu object or NULL
  gOpenmptModule,    \* openmpt_module object or NULL
  gKss,              \* KSS object or NULL
  gKssPlay,          \* KSSPLAY object or NULL
  gAdlPlayer,        \* ADL_MIDIPlayer object or NULL
  gLoader,           \* DATA_LOADER object or NULL
  gSampleRate,
  gRomPath,
  gGmeTrackIndex,
  gGmeTrackCount,
  gKssTrackIndex,
  gKssTrackCount,
  gFftRingBuffer,    \* [0..FFT_SIZE-1 -> numerator of sample/65536]
  gFftWriteIdx,
  gEndlessLoopMode,
  gPlaybackSpeed,    \* in hundredths: 100 is 1.0
  call,              \* the last boundary call: its name, arguments and result
  audio,             \* the nFillBuffer the audio thread is inside, or NULL
  ui                 \* the nGetSpectrum the UI thread is inside, or NULL

vars == << gPlayerType, gVgmPlayer, gGmePlayer, gOpenmptModule, gKss,
           gKssPlay, gAdlPlayer, gLoader, gSampleRate, gRomPath,
           gGmeTrackIndex, gGmeTrackCount, gKssTrackIndex, gKssTrackCount,
           gFftRingBuffer, gFftWriteIdx, gEndlessLoopMode, gPlaybackSpeed,
           call, audio, ui >>

NULL == [kind |-> "NULL"]

ZeroRing == [i \in 0..(FFT_SIZE - 1) |-> 0]

\* The globals as one value, so that a handler is a function from the
\* globals before the call to the globals after it.
Globals ==
  [ gPlayerType |-> gPlayerType, gVgmPlayer |-> gVgmPlayer,
    gGmePlayer |-> gGmePlayer, gOpenmptModule |-> gOpenmptModule,
    gKss |-> gKss, gKssPlay |-> gKssPlay, gAdlPlayer |-> gAdlPlayer,
    gLoader |-> gLoader, gSampleRate |-> gSampleRate, gRomPath |-> gRomPath,
    gGmeTrackIndex |-> gGmeTrackIndex, gGmeTrackCount |-> gGmeTrackCount,
    gKssTrackIndex |-> gKssTrackIndex, gKssTrackCount |-> gKssTrackCount,
    gFftRingBuffer |-> gFftRingBuffer, gFftWriteIdx |-> gFftWriteIdx,
    gEndlessLoopMode |-> gEndlessLoopMode, gPlaybackSpeed |-> gPlaybackSpeed ]

\* The static initialisers of the globals.
InitialGlobals ==
  [ gPlayerType |-> "NONE", gVgmPlayer |-> NULL, gGmePlayer |-> NULL,
    gOpenmptModule |-> NULL, gKss |-> NULL, gKssPlay |-> NULL,
    gAdlPlayer |-> NULL, gLoader |-> NULL,
    gSampleRate |-> DEFAULT_SAMPLE_RATE, gRomPath |-> "",
    gGmeTrackIndex |-> 0, gGmeTrackCount |-> 0,
    gKssTrackIndex |-> 0, gKssTrackCount |-> 0,
    gFftRingBuffer |-> ZeroRing, gFftWriteIdx |-> 0,
    gEndlessLoopMode |-> FALSE, gPlaybackSpeed |-> 100 ]

\* A step that leaves the globals as g, the last call as c and the two
\* threads inside the calls a and u.
Update(g, c, a, u) ==
  /\ gPlayerType' = g.gPlayerType
  /\ gVgmPlayer' = g.gVgmPlayer
  /\ gGmePlayer' = g.gGmePlayer
  /\ gOpenmptModule' = g.gOpenmptModule
  /\ gKss' = g.gKss
  /\ gKssPlay' = g.gKssPlay
  /\ gAdlPlayer' = g.gAdlPlayer
  /\ gLoader' = g.gLoader
  /\ gSampleRate' = g.gSampleRate
  /\ gRomPath' = g.gRomPath
  /\ gGmeTrackIndex' = g.gGmeTrackIndex
  /\ gGmeTrackCount' = g.gGmeTrackCount
  /\ gKssTrackIndex' = g.gKssTrackIndex
  /\ gKssTrackCount' = g.gKssTrackCount
  /\ gFftRingBuffer' = g.gFftRingBuffer
  /\ gFftWriteIdx' = g.gFftWriteIdx
  /\ gEndlessLoopMode' = g.gEndlessLoopMode
  /\ gPlaybackSpeed' = g.gPlaybackSpeed
  /\ call' = c
  /\ audio' = a
  /\ ui' = u

\* The handler runs from entry to exit with no step of another thread in
\* between: it leaves the globals as g and returns, recording the call.
Return(g, c) == Update(g, c, audio, ui)

Init ==
  /\ gPlayerType = "NONE"
  /\ gVgmPlayer = NULL
  /\ gGmePlayer = NULL
  /\ gOpenmptModule = NULL
  /\ gKss = NULL
  /\ gKssPlay = NULL
  /\ gAdlPlayer = NULL
  /\ gLoader = NULL
  /\ gSampleRate = DEFAULT_SAMPLE_RATE
  /\ gRomPath = ""
  /\ gGmeTrackIndex = 0
  /\ gGmeTrackCount = 0
  /\ gKssTrackIndex = 0
  /\ gKssTrackCount = 0
  /\ gFftRingBuffer = ZeroRing
  /\ gFftWriteIdx = 0
  /\ gEndlessLoopMode = FALSE
  /\ gPlaybackSpeed = 100
  /\ call = [op |-> "init"]
  /\ audio = NULL
  /\ ui = NULL

(***************************************************************************)
(* cleanup(): release every backend object and reset the per-file state.   *)
(***************************************************************************)
\* A cleanup that leaves the ring buffer and its cursor as they are: the
\* property of C3 must tell it from cleanup.
cleanupKeepingRing(g) ==
  [g EXCEPT !.gVgmPlayer = NULL, !.gGmePlayer = NULL, !.gOpenmptModule = NULL,
            !.gKssPlay = NULL, !.gKss = NULL, !.gAdlPlayer = NULL,
            !.gPlayerType = "NONE", !.gGmeTrackIndex = 0,
            !.gGmeTrackCount = 0, !.gKssTrackIndex = 0,
            !.gKssTrackCount = 0, !.gLoader = NULL]

cleanupResettingSettings(g) ==
  [cleanupKeepingRing(g) EXCEPT !.gFftRingBuffer = ZeroRing,
                                !.gFftWriteIdx = 0,
                                !.gEndlessLoopMode = FALSE,
                                !.gPlaybackSpeed = 100]

cleanup(g) ==
  [g EXCEPT !.gVgmPlayer = NULL,
            !.gGmePlayer = NULL,
            !.gOpenmptModule = NULL,
            !.gKssPlay = NULL,
            !.gKss = NULL,
            !.gAdlPlayer = NULL,
            !.gPlayerType = "NONE",
            !.gGmeTrackIndex = 0,
            !.gGmeTrackCount = 0,
            !.gKssTrackIndex = 0,
            !.gKssTrackCount = 0,
            !.gLoader = NULL,
            !.gFftRingBuffer = ZeroRing,
            !.gFftWriteIdx = 0]


(***************************************************************************)
(* The backend libraries at their interface.  A constructor returns the    *)
(* new object; an operation returns the object after it.                   *)
(***************************************************************************)
\* gme_open_file(path, &emu, rate): the error and the emulator.
gme_open_file(path, rate) ==
  IF Files(path).readable /\ Files(path).format = "gme"
  THEN [err |-> FALSE,
        emu |-> [kind |-> "Music_Emu", file |-> path, rate |-> rate,
                 track |-> -1, pos |-> 0, tempo |-> 100,
                 ignoreSilence |-> FALSE, autoloadLimit |-> TRUE]]
  ELSE [err |-> TRUE, emu |-> NULL]

gme_track_count(emu) == Files(emu.file).trackCount

\* gme_start_track(emu, track): the error and the emulator.
gme_start_track(emu, track) ==
  IF track \in Files(emu.file).startErr
  THEN [err |-> TRUE, emu |-> emu]
  ELSE [err |-> FALSE, emu |-> [emu EXCEPT !.track = track, !.pos = 0]]

\* KSS_bin2kss(data, size, filename): the parsed file, or NULL.
KSS_bin2kss(path) ==
  IF Files(path).format = "kss"
  THEN [kind |-> "KSS", file |-> path,
        trk_min |-> Files(path).trk_min, trk_max |-> Files(path).trk_max]
  ELSE NULL

\* KSSPLAY_new(rate, 2, 16), NULL when the allocation fails.
KSSPLAY_new(rate, allocOk) ==
  IF allocOk
  THEN [kind |-> "KSSPLAY", rate |-> rate, file |-> <<>>, track |-> 0,
        pos |-> 0, speed |-> 100]
  ELSE NULL

KSSPLAY_set_data(kssplay, kss) == [kssplay EXCEPT !.file = kss.file]

KSSPLAY_reset(kssplay, track) == [kssplay EXCEPT !.track = track, !.pos = 0]

\* openmpt_module_create_from_memory2(...): the module, or NULL.
openmpt_module_create(path) ==
  IF Files(path).format = "mod"
  THEN [kind |-> "openmpt_module", file |-> path, pos |-> 0]
  ELSE NULL

\* adl_init(rate), NULL when the allocation fails.
adl_init(rate, allocOk) ==
  IF allocOk
  THEN [kind |-> "ADL_MIDIPlayer", rate |-> rate, file |-> <<>>, pos |-> 0]
  ELSE NULL

\* adl_openFile(player, path): the result code and the player.
adl_openFile(player, path) ==
  IF Files(path).readable /\ Files(path).format = "midi"
  THEN [result |-> 0, player |-> [player EXCEPT !.file = path]]
  ELSE [result |-> -1, player |-> player]

\* FileLoader_Init(path), NULL when the allocation fails.
FileLoader_Init(path, allocOk) ==
  IF allocOk
  THEN [kind |-> "DATA_LOADER", file |-> path, loaded |-> FALSE]
  ELSE NULL

\* DataLoader_Load(loader): the error code and the loader.
DataLoader_Load(loader) ==
  IF Files(loader.file).readable
  THEN [err |-> 0, loader |-> [loader EXCEPT !.loaded = TRUE]]
  ELSE [err |-> 1, loader |-> loader]

\* new VGMPlayer()
VGMPlayer_new ==
  [kind |-> "VGMPlayer", file |-> <<>>, rate |-> DEFAULT_SAMPLE_RATE,
   play |-> FALSE, end |-> FALSE, pos |-> 0, speed |-> 100,
   devVol |-> {}]

VGMPlayer_SetSampleRate(player, rate) == [player EXCEPT !.rate = rate]

\* VGMPlayer::LoadFile(loader): the error code and the player.
VGMPlayer_LoadFile(player, loader) ==
  IF Files(loader.file).format = "vgm"
  THEN [err |-> 0, player |-> [player EXCEPT !.file = loader.file]]
  ELSE [err |-> 1, player |-> player]

\* VGMPlayer::Start(): back to the first sample, playing.
VGMPlayer_Start(player) ==
  [player EXCEPT !.play = TRUE, !.end = FALSE, !.pos = 0]

\* A Stop that leaves the player as it is: the property of C27 must tell it
\* from VGMPlayer_Stop.
VGMPlayer_StopIgnored(player) == player

VGMPlayer_Stop(player) == [player EXCEPT !.play = FALSE]

(***************************************************************************)
(* nOpen(path).  allocOk is whether the allocation inside the branch       *)
(* (FileLoader_Init, KSSPLAY_new, adl_init) succeeds.  Each branch gives   *)
(* the globals after the call and the value returned.                      *)
(***************************************************************************)
OpenGme(g, path) ==
  LET opened == gme_open_file(path, g.gSampleRate)
  IN IF opened.err
     THEN [g |-> [g EXCEPT !.gGmePlayer = NULL], ret |-> FALSE]
     ELSE
       LET g1 == [g EXCEPT !.gGmePlayer = opened.emu,
                           !.gPlayerType = "LIBGME",
                           !.gGmeTrackCount = gme_track_count(opened.emu),
                           !.gGmeTrackIndex = 0]
           started == gme_start_track(g1.gGmePlayer, 0)
       IN IF started.err
          THEN [g |-> [g1 EXCEPT !.gGmePlayer = NULL,
                                 !.gPlayerType = "NONE"],
                ret |-> FALSE]
          ELSE [g |-> [g1 EXCEPT !.gGmePlayer = started.emu], ret |-> TRUE]

OpenKss(g, path, allocOk) ==
  IF ~Files(path).readable
  THEN [g |-> g, ret |-> FALSE]
  ELSE
    LET g1 == [g EXCEPT !.gKss = KSS_bin2kss(path)]
    IN IF g1.gKss = NULL
       THEN [g |-> g1, ret |-> FALSE]
       ELSE
         LET g2 == [g1 EXCEPT !.gKssPlay = KSSPLAY_new(g.gSampleRate, allocOk)]
         IN IF g2.gKssPlay = NULL
            THEN [g |-> [g2 EXCEPT !.gKss = NULL], ret |-> FALSE]
            ELSE
              LET count == g2.gKss.trk_max - g2.gKss.trk_min + 1
                  g3 == [g2 EXCEPT
                           !.gKssPlay = KSSPLAY_set_data(g2.gKssPlay, g2.gKss),
                           !.gKssTrackCount = IF count < 1 THEN 1 ELSE count,
                           !.gKssTrackIndex = g2.gKss.trk_min]
              IN [g |-> [g3 EXCEPT
                           !.gKssPlay = KSSPLAY_reset(g3.gKssPlay,
                                                      g3.gKssTrackIndex),
                           !.gPlayerType = "LIBKSS"],
                  ret |-> TRUE]

OpenOpenmpt(g, path) ==
  IF ~Files(path).readable
  THEN [g |-> g, ret |-> FALSE]
  ELSE
    LET g1 == [g EXCEPT !.gOpenmptModule = openmpt_module_create(path)]
    IN IF g1.gOpenmptModule = NULL
       THEN [g |-> g1, ret |-> FALSE]
       ELSE [g |-> [g1 EXCEPT !.gPlayerType = "LIBOPENMPT"], ret |-> TRUE]

OpenMidi(g, path, allocOk) ==
  LET g1 == [g EXCEPT !.gAdlPlayer = adl_init(g.gSampleRate, allocOk)]
  IN IF g1.gAdlPlayer = NULL
     THEN [g |-> g1, ret |-> FALSE]
     ELSE
       LET opened == adl_openFile(g1.gAdlPlayer, path)
       IN IF opened.result # 0
          THEN [g |-> [g1 EXCEPT !.gAdlPlayer = NULL], ret |-> FALSE]
          ELSE [g |-> [g1 EXCEPT !.gAdlPlayer = opened.player,
                                 !.gPlayerType = "LIBADLMIDI"],
                ret |-> TRUE]

OpenVgm(g, path, allocOk) ==
  LET g1 == [g EXCEPT !.gLoader = FileLoader_Init(path, allocOk)]
  IN IF g1.gLoader = NULL
     THEN [g |-> g1, ret |-> FALSE]
     ELSE
       LET loaded == DataLoader_Load(g1.gLoader)
       IN IF loaded.err # 0
          THEN [g |-> [g1 EXCEPT !.gLoader = NULL], ret |-> FALSE]
          ELSE
            LET g2 == [g1 EXCEPT
                         !.gLoader = loaded.loader,
                         !.gVgmPlayer =
                            VGMPlayer_SetSampleRate(VGMPlayer_new,
                                                    g.gSampleRate)]
                file == VGMPlayer_LoadFile(g2.gVgmPlayer, g2.gLoader)
            IN IF file.err # 0
               THEN [g |-> [g2 EXCEPT !.gVgmPlayer = NULL, !.gLoader = NULL],
                     ret |-> FALSE]
               ELSE [g |-> [g2 EXCEPT
                              !.gPlayerType = "LIBVGM",
                              !.gVgmPlayer =
                                 VGMPlayer_Start(
                                   VGMPlayer_SetSampleRate(file.player,
                                                           g.gSampleRate))],
                     ret |-> TRUE]

\* An nOpen without the cleanup() it starts with: the property of C1 must
\* tell it from OpenResult.
OpenResultWithoutCleanup(g0, path, allocOk) ==
  IF isGmeFormat(path) THEN OpenGme(g0, path)
  ELSE IF isKssFormat(path) THEN OpenKss(g0, path, allocOk)
  ELSE IF isOpenmptFormat(path) THEN OpenOpenmpt(g0, path)
  ELSE IF isMidiFormat(path) THEN OpenMidi(g0, path, allocOk)
  ELSE OpenVgm(g0, path, allocOk)

OpenResult(g0, path, allocOk) ==
  LET g == cleanup(g0)
  IN IF isGmeFormat(path) THEN OpenGme(g, path)
     ELSE IF isKssFormat(path) THEN OpenKss(g, path, allocOk)
     ELSE IF isOpenmptFormat(path) THEN OpenOpenmpt(g, path)
     ELSE IF isMidiFormat(path) THEN OpenMidi(g, path, allocOk)
     ELSE OpenVgm(g, path, allocOk)

\* The backend nOpen sends a path to: the first of its four tests that
\* holds, libvgm when none does.
BackendKind(path) ==
  IF isGmeFormat(path) THEN "LIBGME"
  ELSE IF isKssFormat(path) THEN "LIBKSS"
  ELSE IF isOpenmptFormat(path) THEN "LIBOPENMPT"
  ELSE IF isMidiFormat(path) THEN "LIBADLMIDI"
  ELSE "LIBVGM"

(***************************************************************************)
(* Time and position at the library interfaces.  libopenmpt and libADLMIDI *)
(* keep their position in seconds (a double); the model keeps it as a      *)
(* whole number of ticks, a tick being the largest unit of which a frame   *)
(* at each modelled sample rate is a whole multiple.                       *)
(***************************************************************************)
SampleRates == {44100, 48000}

TicksPerSecond == 44100 * 160

TicksPerFrame(rate) == TicksPerSecond \div rate

Min(a, b) == IF a < b THEN a ELSE b

\* a * b / 1000 in 64-bit arithmetic for a, b >= 0, without forming a * b.
MulDiv1000(a, b) == (a \div 1000) * b + ((a % 1000) * b) \div 1000

\* The native end of the stream of a file, in ticks (-1: it never ends).
EndTicks(path) ==
  IF Files(path).endFrame < 0 THEN -1
  ELSE Files(path).endFrame * TicksPerFrame(DEFAULT_SAMPLE_RATE)

\* Frames of the given rate still to come before tick `endTicks`.
FramesLeft(pos, endTicks, rate) ==
  IF pos >= endTicks THEN 0
  ELSE (endTicks - pos + TicksPerFrame(rate) - 1) \div TicksPerFrame(rate)

\* VGMPlayer::GetTotalTicks(): the length of the log in 44100 Hz ticks.
VGMPlayer_GetTotalTicks(player) == Files(player.file).endFrame

\* VGMPlayer::Tick2Sample / Sample2Tick: rounded rate conversion.
VGMPlayer_Tick2Sample(player, ticks) ==
  (ticks * player.rate + (DEFAULT_SAMPLE_RATE \div 2)) \div DEFAULT_SAMPLE_RATE

VGMPlayer_Sample2Tick(player, smpl) ==
  (smpl * DEFAULT_SAMPLE_RATE + (player.rate \div 2)) \div player.rate

\* VGMPlayer::Render(chunk, buf): the frames rendered and the player.  It
\* renders until the end of the log, raises PLAYSTATE_END there, and gives
\* 0 frames when stopped or ended.
VGMPlayer_Render(player, chunk) ==
  LET limit == VGMPlayer_Tick2Sample(player, VGMPlayer_GetTotalTicks(player))
      got == IF ~player.play \/ player.end \/ player.pos >= limit THEN 0
             ELSE Min(chunk, limit - player.pos)
  IN [got |-> got,
      player |-> [player EXCEPT !.pos = player.pos + got,
                                !.end = player.end
                                        \/ (got > 0 /\ player.pos + got >= limit)]]

\* gme_play(emu, count, out): the error and the emulator.  The buffer is
\* always filled (with silence after the track has ended).
gme_play(emu, frames) ==
  IF Files(emu.file).playErr
  THEN [err |-> TRUE, emu |-> emu]
  ELSE [err |-> FALSE, emu |-> [emu EXCEPT !.pos = emu.pos + frames]]

gme_track_ended(emu) ==
  /\ Files(emu.file).endFrame >= 0
  /\ emu.pos >= Files(emu.file).endFrame

\* gme_tell(emu): milliseconds played.
gme_tell(emu) == (emu.pos * 1000) \div emu.rate

\* KSSPLAY_calc(kssplay, out, frames): always fills the buffer.
KSSPLAY_calc(kssplay, frames) == [kssplay EXCEPT !.pos = kssplay.pos + frames]

KSSPLAY_get_stop_flag(kssplay) ==
  /\ Files(kssplay.file).endFrame >= 0
  /\ kssplay.pos >= Files(kssplay.file).endFrame

\* openmpt_module_read_interleaved_stereo(mod, rate, frames, out): the
\* frames rendered (fewer than asked at the end, then 0) and the module.
openmpt_module_read(mod, rate, frames) ==
  LET got == Min(frames, FramesLeft(mod.pos, EndTicks(mod.file), rate))
  IN [got |-> got,
      mod |-> [mod EXCEPT !.pos = Min(mod.pos + got * TicksPerFrame(rate),
                                      EndTicks(mod.file))]]

\* adl_play(player, sampleCount, out): the samples (two per frame)
\* rendered and the player.
adl_play(player, sampleCount) ==
  LET got == Min(sampleCount \div 2,
                 FramesLeft(player.pos, EndTicks(player.file), player.rate))
  IN [samples |-> 2 * got,
      player |-> [player EXCEPT
                    !.pos = Min(player.pos + got * TicksPerFrame(player.rate),
                                EndTicks(player.file))]]

\* adl_positionTell / adl_totalTimeLength, in ticks.
adl_positionTell(player) == player.pos

adl_totalTimeLength(player) == EndTicks(player.file)

(***************************************************************************)
(* The queries: each a function of the globals.                            *)
(***************************************************************************)
\* An nIsEnded without the test of gEndlessLoopMode: the property of C6 must
\* tell it from nIsEnded.
nIsEndedIgnoringEndless(g) ==
  IF g.gPlayerType = "LIBVGM" /\ g.gVgmPlayer # NULL THEN g.gVgmPlayer.end
  ELSE IF g.gPlayerType = "LIBGME" /\ g.gGmePlayer # NULL
       THEN gme_track_ended(g.gGmePlayer)
  ELSE IF g.gPlayerType = "LIBKSS" /\ g.gKssPlay # NULL
       THEN KSSPLAY_get_stop_flag(g.gKssPlay)
  ELSE g.gPlayerType # "LIBOPENMPT"

nIsEnded(g) ==
  IF g.gEndlessLoopMode THEN FALSE
  ELSE IF g.gPlayerType = "LIBVGM" /\ g.gVgmPlayer # NULL
       THEN g.gVgmPlayer.end
  ELSE IF g.gPlayerType = "LIBGME" /\ g.gGmePlayer # NULL
       THEN gme_track_ended(g.gGmePlayer)
  ELSE IF g.gPlayerType = "LIBOPENMPT" /\ g.gOpenmptModule # NULL
       THEN FALSE
  ELSE IF g.gPlayerType = "LIBKSS" /\ g.gKssPlay # NULL
       THEN KSSPLAY_get_stop_flag(g.gKssPlay)
  ELSE IF g.gPlayerType = "LIBADLMIDI" /\ g.gAdlPlayer # NULL
       THEN /\ adl_totalTimeLength(g.gAdlPlayer) > 0
            /\ adl_positionTell(g.gAdlPlayer)
                 >= adl_totalTimeLength(g.gAdlPlayer)
  ELSE TRUE

nGetEndlessLoop(g) == g.gEndlessLoopMode

nGetPlaybackSpeed(g) == g.gPlaybackSpeed

\* gme_track_info(emu, &info, track) == 0
gme_track_info_ok(emu, track) ==
  /\ track >= 0
  /\ track < Files(emu.file).trackCount
  /\ track \notin Files(emu.file).infoErr

\* The length estimate of the libgme branches, in milliseconds.
\* An estimate that counts the loop once: the property of C26 must tell it
\* from GmeLengthMs.
GmeLengthMsOneLoop(lengths) ==
  LET length_ms == IF lengths.intro_length > 0 /\ lengths.loop_length > 0
                   THEN lengths.intro_length + lengths.loop_length
                   ELSE lengths.play_length
  IN IF length_ms < 30000 THEN 180000 ELSE length_ms

GmeLengthMs(lengths) ==
  LET length_ms == IF lengths.intro_length > 0 /\ lengths.loop_length > 0
                   THEN lengths.intro_length + lengths.loop_length * 2
                   ELSE lengths.play_length
  IN IF length_ms < 30000 THEN 180000 ELSE length_ms

\* The first KSSINFO entry of the current track with a positive time, 0
\* when there is none.
KssInfoTime(info, track) ==
  LET hits == {i \in 1..Len(info) :
                 info[i].song = track /\ info[i].time_in_ms > 0}
  IN IF hits = {} THEN 0
     ELSE info[CHOOSE i \in hits : \A j \in hits : i <= j].time_in_ms

nGetTotalSamples(g) ==
  IF g.gPlayerType = "LIBVGM" /\ g.gVgmPlayer # NULL
  THEN VGMPlayer_Tick2Sample(g.gVgmPlayer,
                             VGMPlayer_GetTotalTicks(g.gVgmPlayer))
  ELSE IF /\ g.gPlayerType = "LIBGME" /\ g.gGmePlayer # NULL
          /\ gme_track_info_ok(g.gGmePlayer, g.gGmeTrackIndex)
  THEN MulDiv1000(GmeLengthMs(Files(g.gGmePlayer.file)
                                .lengths[g.gGmeTrackIndex + 1]),
                  g.gSampleRate)
  ELSE IF g.gPlayerType = "LIBOPENMPT" /\ g.gOpenmptModule # NULL
  THEN 180 * g.gSampleRate
  ELSE IF g.gPlayerType = "LIBKSS" /\ g.gKss # NULL
  THEN IF KssInfoTime(Files(g.gKss.file).kssInfo, g.gKssTrackIndex) > 0
       THEN MulDiv1000(KssInfoTime(Files(g.gKss.file).kssInfo,
                                   g.gKssTrackIndex),
                       g.gSampleRate)
       ELSE 180 * g.gSampleRate
  ELSE IF g.gPlayerType = "LIBADLMIDI" /\ g.gAdlPlayer # NULL
  THEN IF adl_totalTimeLength(g.gAdlPlayer) > 0
       THEN adl_totalTimeLength(g.gAdlPlayer)
              \div TicksPerFrame(g.gSampleRate)
       ELSE 180 * g.gSampleRate
  ELSE 0

nGetCurrentSample(g) ==
  IF g.gPlayerType = "LIBVGM" /\ g.gVgmPlayer # NULL
  THEN VGMPlayer_Tick2Sample(g.gVgmPlayer,
         VGMPlayer_Sample2Tick(g.gVgmPlayer, g.gVgmPlayer.pos))
  ELSE IF g.gPlayerType = "LIBGME" /\ g.gGmePlayer # NULL
  THEN MulDiv1000(gme_tell(g.gGmePlayer), g.gSampleRate)
  ELSE IF g.gPlayerType = "LIBOPENMPT" /\ g.gOpenmptModule # NULL
  THEN g.gOpenmptModule.pos \div TicksPerFrame(g.gSampleRate)
  ELSE IF g.gPlayerType = "LIBKSS" /\ g.gKssPlay # NULL
  THEN 0
  ELSE IF g.gPlayerType = "LIBADLMIDI" /\ g.gAdlPlayer # NULL
  THEN adl_positionTell(g.gAdlPlayer) \div TicksPerFrame(g.gSampleRate)
  ELSE 0

\* A track count that is 0 outside libgme and libkss: the property of C20
\* must tell it from nGetTrackCount.
nGetTrackCountOfMultiTrack(g) ==
  IF g.gPlayerType = "LIBGME" /\ g.gGmePlayer # NULL THEN g.gGmeTrackCount
  ELSE IF g.gPlayerType = "LIBKSS" /\ g.gKss # NULL THEN g.gKssTrackCount
  ELSE 0

nGetTrackCount(g) ==
  IF g.gPlayerType = "LIBGME" /\ g.gGmePlayer # NULL THEN g.gGmeTrackCount
  ELSE IF g.gPlayerType = "LIBKSS" /\ g.gKss # NULL THEN g.gKssTrackCount
  ELSE 1

nGetCurrentTrack(g) ==
  IF g.gPlayerType = "LIBKSS" /\ g.gKss # NULL THEN g.gKssTrackIndex
  ELSE g.gGmeTrackIndex

\* The distinct device ids of GetSongDeviceInfo, in order of appearance.
DeviceIds(devs) ==
  {devs[i].id : i \in 1..Len(devs)}

nGetDeviceCount(g) ==
  IF g.gPlayerType = "LIBVGM" /\ g.gVgmPlayer # NULL
  THEN Cardinality(DeviceIds(Files(g.gVgmPlayer.file).devs))
  ELSE 0

\* The first device with the given id, 0 when there is none.
FirstDevice(devs, id) ==
  IF \E i \in 1..Len(devs) : devs[i].id = id
  THEN CHOOSE i \in 1..Len(devs) :
         /\ devs[i].id = id
         /\ \A j \in 1..(i - 1) : devs[j].id # id
  ELSE 0

\* gme_voice_name(emu, id): NULL (here "") outside the voices.
gme_voice_name(emu, id) == IF id = 0 THEN "Square 1" ELSE ""

nGetDeviceName(g, id) ==
  IF /\ g.gPlayerType = "LIBVGM" /\ g.gVgmPlayer # NULL
     /\ FirstDevice(Files(g.gVgmPlayer.file).devs, id) # 0
  THEN Files(g.gVgmPlayer.file)
         .devs[FirstDevice(Files(g.gVgmPlayer.file).devs, id)].name
  ELSE IF g.gPlayerType = "LIBGME" /\ g.gGmePlayer # NULL
  THEN IF gme_voice_name(g.gGmePlayer, id) # ""
       THEN gme_voice_name(g.gGmePlayer, id) ELSE "Unknown"
  ELSE ""

nGetDeviceVolume(g, id) ==
  IF /\ g.gPlayerType = "LIBVGM" /\ g.gVgmPlayer # NULL
     /\ FirstDevice(Files(g.gVgmPlayer.file).devs, id) # 0
  THEN Files(g.gVgmPlayer.file)
         .devs[FirstDevice(Files(g.gVgmPlayer.file).devs, id)].volume
  ELSE DEFAULT_DEVICE_VOLUME

\* A window that starts at slot 0 whatever the cursor: the property of C28
\* must tell it from SpectrumWindow.
SpectrumWindowFromSlotZero(g) ==
  [i \in 0..(FFT_SIZE - 1) |-> g.gFftRingBuffer[i]]

\* The window nGetSpectrum hands to the transform: element i is the slot
\* (gFftWriteIdx + i) % FFT_SIZE.  The spectrum is a function of it alone.
SpectrumWindow(g) ==
  [i \in 0..(FFT_SIZE - 1) |-> g.gFftRingBuffer[(g.gFftWriteIdx + i) % FFT_SIZE]]

\* nGetSpectrum with no step of another thread inside it: the vector a it
\* fills (a[i] of the code is element i + 1 of the sequence).
nGetSpectrum ==
  Return(Globals,
         [op |-> "nGetSpectrum",
          a |-> [i \in 1..FFT_SIZE |-> SpectrumWindow(Globals)[i - 1]]])

nOpen(path, allocOk) ==
  LET r == OpenResult(Globals, path, allocOk)
  IN Return(r.g, [op |-> "nOpen", path |-> path, ret |-> r.ret])

nClose == Return(cleanup(Globals), [op |-> "nClose"])

(***************************************************************************)
(* Settings.                                                               *)
(***************************************************************************)
SetSampleRateResult(g, rate) ==
  LET g1 == [g EXCEPT !.gSampleRate = rate]
  IN IF g1.gVgmPlayer # NULL
     THEN [g1 EXCEPT !.gVgmPlayer =
                        VGMPlayer_SetSampleRate(g1.gVgmPlayer, g1.gSampleRate)]
     ELSE g1

nSetSampleRate(rate) ==
  Return(SetSampleRateResult(Globals, rate),
         [op |-> "nSetSampleRate", rate |-> rate])

nSetRomPath(path) ==
  Return([Globals EXCEPT !.gRomPath = path],
         [op |-> "nSetRomPath", path |-> path])

SetEndlessLoopResult(g, enabled) ==
  LET g1 == [g EXCEPT !.gEndlessLoopMode = enabled]
  IN IF g1.gPlayerType = "LIBGME" /\ g1.gGmePlayer # NULL
     THEN [g1 EXCEPT !.gGmePlayer.ignoreSilence = enabled,
                     !.gGmePlayer.autoloadLimit = ~enabled]
     ELSE g1

nSetEndlessLoop(enabled) ==
  Return(SetEndlessLoopResult(Globals, enabled),
         [op |-> "nSetEndlessLoop", enabled |-> enabled])

SetPlaybackSpeedResult(g, speed) ==
  LET g1 == [g EXCEPT !.gPlaybackSpeed = speed]
      g2 == IF g1.gPlayerType = "LIBVGM" /\ g1.gVgmPlayer # NULL
            THEN [g1 EXCEPT !.gVgmPlayer.speed = speed] ELSE g1
      g3 == IF g2.gPlayerType = "LIBGME" /\ g2.gGmePlayer # NULL
            THEN [g2 EXCEPT !.gGmePlayer.tempo = speed] ELSE g2
  IN IF g3.gPlayerType = "LIBKSS" /\ g3.gKssPlay # NULL
     THEN [g3 EXCEPT !.gKssPlay.speed = speed] ELSE g3

nSetPlaybackSpeed(speed) ==
  Return(SetPlaybackSpeedResult(Globals, speed),
         [op |-> "nSetPlaybackSpeed", speed |-> speed])

(***************************************************************************)
(* Transport.                                                              *)
(***************************************************************************)
PlayResult(g) ==
  IF g.gPlayerType = "LIBVGM" /\ g.gVgmPlayer # NULL
  THEN [g EXCEPT !.gVgmPlayer =
                    VGMPlayer_Start(
                      VGMPlayer_SetSampleRate(g.gVgmPlayer, g.gSampleRate))]
  ELSE g

nPlay == Return(PlayResult(Globals), [op |-> "nPlay"])

StopResult(g) ==
  IF g.gPlayerType = "LIBVGM" /\ g.gVgmPlayer # NULL
  THEN [g EXCEPT !.gVgmPlayer = VGMPlayer_Stop(g.gVgmPlayer)]
  ELSE g

nStop == Return(StopResult(Globals), [op |-> "nStop"])

\* VGMPlayer::Seek(PLAYPOS_SAMPLE, smpl): to the sample, at most the end.
VGMPlayer_Seek(player, smpl) ==
  LET limit == VGMPlayer_Tick2Sample(player, VGMPlayer_GetTotalTicks(player))
  IN [player EXCEPT !.pos = Min(smpl, limit), !.end = (smpl >= limit)]

\* A gme_seek that takes its argument for a count of frames: the property
\* of C17 must tell it from gme_seek.
gme_seek_frames(emu, ms) == [emu EXCEPT !.pos = ms]

\* gme_seek(emu, ms)
gme_seek(emu, ms) == [emu EXCEPT !.pos = MulDiv1000(ms, emu.rate)]

\* openmpt_module_set_position_seconds / adl_positionSeek: the position in
\* ticks, at most the end of the stream.
SeekTicks(path, ticks) ==
  IF EndTicks(path) >= 0 THEN Min(ticks, EndTicks(path)) ELSE ticks

\* An nSeek that positions a libkss session too: the property of C18 must
\* tell it from SeekResult.
SeekResultPositioningKss(g, samplePos) ==
  IF g.gPlayerType = "LIBKSS" /\ g.gKssPlay # NULL
  THEN [g EXCEPT !.gKssPlay.pos = samplePos]
  ELSE g

\* The cast (UINT32)samplePos leaves the positions the model seeks to
\* (0 <= samplePos < 2^31) as they are.
SeekResult(g, samplePos) ==
  LET g1 == IF g.gPlayerType = "LIBVGM" /\ g.gVgmPlayer # NULL
            THEN [g EXCEPT !.gVgmPlayer =
                              VGMPlayer_Seek(g.gVgmPlayer, samplePos)]
            ELSE g
      g2 == IF g1.gPlayerType = "LIBGME" /\ g1.gGmePlayer # NULL
            THEN [g1 EXCEPT !.gGmePlayer =
                               gme_seek(g1.gGmePlayer,
                                        (samplePos * 1000) \div g1.gSampleRate)]
            ELSE g1
      g3 == IF g2.gPlayerType = "LIBOPENMPT" /\ g2.gOpenmptModule # NULL
            THEN [g2 EXCEPT !.gOpenmptModule.pos =
                               SeekTicks(g2.gOpenmptModule.file,
                                         samplePos * TicksPerFrame(g2.gSampleRate))]
            ELSE g2
  IN IF g3.gPlayerType = "LIBADLMIDI" /\ g3.gAdlPlayer # NULL
     THEN [g3 EXCEPT !.gAdlPlayer.pos =
                        SeekTicks(g3.gAdlPlayer.file,
                                  samplePos * TicksPerFrame(g3.gSampleRate))]
     ELSE g3

nSeek(samplePos) ==
  Return(SeekResult(Globals, samplePos),
         [op |-> "nSeek", samplePos |-> samplePos])

\* VGMPlayer::SetDeviceVolume(id, vol): the volume set for the device, as
\* pairs <<id, vol>>.
VGMPlayer_SetDeviceVolume(player, id, vol) ==
  [player EXCEPT !.devVol = {d \in player.devVol : d[1] # id}
                              \cup {<<id, vol>>}]

\* The cast (UINT16)vol keeps the low 16 bits.
SetDeviceVolumeResult(g, id, vol) ==
  IF g.gPlayerType = "LIBVGM" /\ g.gVgmPlayer # NULL
  THEN [g EXCEPT !.gVgmPlayer =
                    VGMPlayer_SetDeviceVolume(g.gVgmPlayer, id,
                                              vol % (2 * (INT16_MAX + 1)))]
  ELSE g

nSetDeviceVolume(id, vol) ==
  Return(SetDeviceVolumeResult(Globals, id, vol),
         [op |-> "nSetDeviceVolume", id |-> id, vol |-> vol])

\* nIsMultiTrack(path): a function of the path alone.
IsMultiTrackResult(path) == isGmeFormat(path) \/ isKssFormat(path)

nIsMultiTrack(path) ==
  Return(Globals, [op |-> "nIsMultiTrack", path |-> path,
                   ret |-> IsMultiTrackResult(path)])

(***************************************************************************)
(* nSetTrack(trackIndex): the globals after the call and the value         *)
(* returned.                                                               *)
(***************************************************************************)
\* A libkss branch that takes the index as counted from 0: the property of
\* C5 must tell it from SetTrackKss.
SetTrackKssZeroBased(g, trackIndex) ==
  IF g.gPlayerType = "LIBKSS" /\ g.gKssPlay # NULL /\ g.gKss # NULL
  THEN IF trackIndex >= 0 /\ trackIndex < g.gKssTrackCount
       THEN [g |-> [g EXCEPT !.gKssPlay = KSSPLAY_reset(g.gKssPlay, trackIndex),
                             !.gKssTrackIndex = trackIndex],
             ret |-> TRUE]
       ELSE [g |-> g, ret |-> FALSE]
  ELSE [g |-> g, ret |-> FALSE]

SetTrackKss(g, trackIndex) ==
  IF g.gPlayerType = "LIBKSS" /\ g.gKssPlay # NULL /\ g.gKss # NULL
  THEN IF trackIndex >= g.gKss.trk_min /\ trackIndex <= g.gKss.trk_max
       THEN [g |-> [g EXCEPT !.gKssPlay = KSSPLAY_reset(g.gKssPlay, trackIndex),
                             !.gKssTrackIndex = trackIndex],
             ret |-> TRUE]
       ELSE [g |-> g, ret |-> FALSE]
  ELSE [g |-> g, ret |-> FALSE]

\* An nSetTrack that stores the index whatever the session is: the property
\* of C4 must tell it from SetTrackResult.
SetTrackResultUnguarded(g, trackIndex) ==
  [g |-> [g EXCEPT !.gGmeTrackIndex = trackIndex], ret |-> TRUE]

\* An nSetTrack that stores the index although gme_start_track failed: the
\* property of C35 must tell it from SetTrackResult.
SetTrackResultStoringOnError(g, trackIndex) ==
  IF /\ g.gPlayerType = "LIBGME" /\ g.gGmePlayer # NULL
     /\ trackIndex >= 0 /\ trackIndex < g.gGmeTrackCount
  THEN LET started == gme_start_track(g.gGmePlayer, trackIndex)
       IN [g |-> [g EXCEPT !.gGmePlayer = started.emu,
                           !.gGmeTrackIndex = trackIndex],
           ret |-> ~started.err]
  ELSE SetTrackKss(g, trackIndex)

SetTrackResult(g, trackIndex) ==
  IF /\ g.gPlayerType = "LIBGME" /\ g.gGmePlayer # NULL
     /\ trackIndex >= 0 /\ trackIndex < g.gGmeTrackCount
  THEN LET started == gme_start_track(g.gGmePlayer, trackIndex)
       IN IF started.err
          THEN [g |-> g, ret |-> FALSE]
          ELSE [g |-> [g EXCEPT !.gGmePlayer = started.emu,
                                !.gGmeTrackIndex = trackIndex],
                ret |-> TRUE]
  ELSE SetTrackKss(g, trackIndex)

nSetTrack(trackIndex) ==
  LET r == SetTrackResult(Globals, trackIndex)
  IN Return(r.g, [op |-> "nSetTrack", trackIndex |-> trackIndex,
                  ret |-> r.ret])

(***************************************************************************)
(* nFillBuffer(buffer, frames).  What the backend emits during the call is *)
(* a pattern pat: frame k of the call has the native left value            *)
(* pat.l + k * pat.step and the native right value pat.r - k * pat.step.   *)
(* The Java array holds 2 * frames zeros before the call.                  *)
(***************************************************************************)
NativeFrame(pat, k) == [L |-> pat.l + k * pat.step, R |-> pat.r - k * pat.step]

\* x >> 8 on a 32-bit signed value (arithmetic shift).
Shr8(x) == x \div 256

\* The conversion to 16 bits without the clamp, which wraps: the property of
\* C9 must tell it from Clamp16.
Wrap16(v) == ((v - INT16_MIN) % (2 * (INT16_MAX + 1))) + INT16_MIN

Clamp16(v) ==
  IF v > INT16_MAX THEN INT16_MAX
  ELSE IF v < INT16_MIN THEN INT16_MIN
  ELSE v

\* A write to the ring buffer that moves the cursor on without the modulo,
\* holding it at the last slot: the property of C10 must tell it from RingPut.
RingPutSaturating(st, mono) ==
  [st EXCEPT !.ring[st.idx] = mono,
             !.idx = IF st.idx + 1 < FFT_SIZE THEN st.idx + 1 ELSE st.idx]

\* A write to the ring buffer that moves the cursor on without the modulo:
\* the property of C24 must tell it from RingPut.
RingPutUnwrapped(st, mono) ==
  [st EXCEPT !.ring[st.idx] = mono, !.idx = st.idx + 1]

\* One slot of the ring buffer is written and the cursor moves on.
RingPut(st, mono) ==
  [st EXCEPT !.ring[st.idx] = mono,
             !.idx = (st.idx + 1) % FFT_SIZE]

\* The two samples the libvgm loop stores for frame k of the call.
VgmSample(pat, k) ==
  [l |-> Clamp16(Shr8(NativeFrame(pat, k).L)),
   r |-> Clamp16(Shr8(NativeFrame(pat, k).R))]

\* The ring-buffer half of the body of the libvgm loop for frame i of a
\* chunk whose first frame is frame `written` of the call.  st is
\* [ring, idx].
VgmFrame(st, pat, written, i) ==
  RingPut(st, VgmSample(pat, written + i).l + VgmSample(pat, written + i).r)

\* The array half of the loop over a chunk of `got` frames:
\* dst[(written + i) * 2] = l and dst[(written + i) * 2 + 1] = r.
VgmChunkDst(dst, pat, written, got) ==
  [k \in DOMAIN dst |->
     IF k >= 2 * written /\ k < 2 * (written + got)
     THEN IF k % 2 = 0 THEN VgmSample(pat, k \div 2).l
                       ELSE VgmSample(pat, k \div 2).r
     ELSE dst[k]]

\* for (i = lo; i < hi; i++) VgmFrame, the frames taken in order.
RECURSIVE VgmFrames(_, _, _, _, _)
VgmFrames(st, pat, written, lo, hi) ==
  IF hi <= lo THEN st
  ELSE IF hi = lo + 1 THEN VgmFrame(st, pat, written, lo)
  ELSE LET mid == (lo + hi) \div 2
           first == VgmFrames(st, pat, written, lo, mid)
       IN IF first.idx >= 0 THEN VgmFrames(first, pat, written, mid, hi)
          ELSE first

\* while (remaining > 0) { chunk; Render; if (got == 0) break; ... }
\* st is [player, dst, ring, idx, written, chunks], chunks being the chunk
\* asked of Render in each iteration so far.
RECURSIVE VgmRenderLoop(_, _, _)
VgmRenderLoop(st, pat, remaining) ==
  IF remaining <= 0 THEN st
  ELSE
    LET chunk == IF remaining > MAX_FRAMES THEN MAX_FRAMES ELSE remaining
        r == VGMPlayer_Render(st.player, chunk)
    IN IF r.got = 0
       THEN [st EXCEPT !.player = r.player,
                       !.chunks = Append(st.chunks, chunk)]
       ELSE
         LET w == VgmFrames([ring |-> st.ring, idx |-> st.idx],
                            pat, st.written, 0, r.got)
         IN VgmRenderLoop([player |-> r.player,
                           dst |-> VgmChunkDst(st.dst, pat, st.written, r.got),
                           ring |-> w.ring, idx |-> w.idx,
                           written |-> st.written + r.got,
                           chunks |-> Append(st.chunks, chunk)],
                          pat, remaining - r.got)

\* The backend has put `filled` frames of 16-bit samples into dst.
PcmFill(dst, pat, filled) ==
  [k \in DOMAIN dst |->
     IF k < 2 * filled
     THEN IF k % 2 = 0 THEN NativeFrame(pat, k \div 2).L
                       ELSE NativeFrame(pat, k \div 2).R
     ELSE dst[k]]

\* One frame of the loop feeding the ring buffer from dst: the sample is
\* (dst[2i]/32768 + dst[2i+1]/32768) / 2, that is (dst[2i] + dst[2i+1])/65536.
PcmFrame(st, i) == RingPut(st, st.dst[i * 2] + st.dst[i * 2 + 1])

\* for (i = lo; i < hi; i++) PcmFrame, the frames taken in order.
RECURSIVE PcmFrames(_, _, _)
PcmFrames(st, lo, hi) ==
  IF hi <= lo THEN st
  ELSE IF hi = lo + 1 THEN PcmFrame(st, lo)
  ELSE LET mid == (lo + hi) \div 2
           first == PcmFrames(st, lo, mid)
       IN IF first.idx >= 0 THEN PcmFrames(first, mid, hi) ELSE first

\* The branches of nFillBuffer after the frames <= 0 test: the globals, the
\* array and the frames written.
FillVgm(g, dst, frames, pat) ==
  LET w == VgmRenderLoop([player |-> g.gVgmPlayer, dst |-> dst,
                          ring |-> g.gFftRingBuffer, idx |-> g.gFftWriteIdx,
                          written |-> 0, chunks |-> <<>>],
                         pat, frames)
  IN [g |-> [g EXCEPT !.gVgmPlayer = w.player, !.gFftRingBuffer = w.ring,
                      !.gFftWriteIdx = w.idx],
      dst |-> w.dst, written |-> w.written]

\* The ring buffer is fed `written` frames of dst.
FeedRing(g, dst, written) ==
  LET w == PcmFrames([dst |-> dst, ring |-> g.gFftRingBuffer,
                      idx |-> g.gFftWriteIdx], 0, written)
  IN [g |-> [g EXCEPT !.gFftRingBuffer = w.ring, !.gFftWriteIdx = w.idx],
      dst |-> dst, written |-> written]

FillGme(g, dst, frames, pat) ==
  LET played == gme_play(g.gGmePlayer, frames)
  IN IF played.err
     THEN [g |-> g, dst |-> dst, written |-> 0]
     ELSE FeedRing([g EXCEPT !.gGmePlayer = played.emu],
                   PcmFill(dst, pat, frames), frames)

FillOpenmpt(g, dst, frames, pat) ==
  LET read == openmpt_module_read(g.gOpenmptModule, g.gSampleRate, frames)
  IN FeedRing([g EXCEPT !.gOpenmptModule = read.mod],
              PcmFill(dst, pat, read.got), read.got)

FillKss(g, dst, frames, pat) ==
  FeedRing([g EXCEPT !.gKssPlay = KSSPLAY_calc(g.gKssPlay, frames)],
           PcmFill(dst, pat, frames), frames)

\* A libADLMIDI branch that reports every frame asked for as written: the
\* property of C19 must tell it from FillAdl.
FillAdlReportingAll(g, dst, frames, pat) ==
  LET played == adl_play(g.gAdlPlayer, frames * 2)
  IN FeedRing([g EXCEPT !.gAdlPlayer = played.player],
              PcmFill(dst, pat, played.samples \div 2), frames)

FillAdl(g, dst, frames, pat) ==
  LET played == adl_play(g.gAdlPlayer, frames * 2)
      g1 == [g EXCEPT !.gAdlPlayer = played.player]
      filled == PcmFill(dst, pat, played.samples \div 2)
  IN IF played.samples > 0
     THEN FeedRing(g1, filled, played.samples \div 2)
     ELSE [g |-> g1, dst |-> filled, written |-> 0]

\* An nFillBuffer without the test of frames <= 0: the property of C25 must
\* tell it from FillBufferResult.
FillBufferResultUnguarded(g, frames, pat) ==
  LET dst == [k \in 0..(2 * frames - 1) |-> 0]
  IN IF g.gPlayerType = "LIBVGM" /\ g.gVgmPlayer # NULL
     THEN FillVgm(g, dst, frames, pat)
     ELSE IF g.gPlayerType = "LIBGME" /\ g.gGmePlayer # NULL
          THEN FillGme(g, dst, frames, pat)
     ELSE IF g.gPlayerType = "LIBOPENMPT" /\ g.gOpenmptModule # NULL
          THEN FillOpenmpt(g, dst, frames, pat)
     ELSE IF g.gPlayerType = "LIBKSS" /\ g.gKssPlay # NULL
          THEN FillKss(g, dst, frames, pat)
     ELSE IF g.gPlayerType = "LIBADLMIDI" /\ g.gAdlPlayer # NULL
          THEN FillAdl(g, dst, frames, pat)
     ELSE [g |-> g, dst |-> dst, written |-> 0]

FillBufferResult(g, frames, pat) ==
  LET dst == [k \in 0..(2 * frames - 1) |-> 0]
  IN IF frames <= 0 THEN [g |-> g, dst |-> <<>>, written |-> 0]
     ELSE IF g.gPlayerType = "LIBVGM" /\ g.gVgmPlayer # NULL
          THEN FillVgm(g, dst, frames, pat)
     ELSE IF g.gPlayerType = "LIBGME" /\ g.gGmePlayer # NULL
          THEN FillGme(g, dst, frames, pat)
     ELSE IF g.gPlayerType = "LIBOPENMPT" /\ g.gOpenmptModule # NULL
          THEN FillOpenmpt(g, dst, frames, pat)
     ELSE IF g.gPlayerType = "LIBKSS" /\ g.gKssPlay # NULL
          THEN FillKss(g, dst, frames, pat)
     ELSE IF g.gPlayerType = "LIBADLMIDI" /\ g.gAdlPlayer # NULL
          THEN FillAdl(g, dst, frames, pat)
     ELSE [g |-> g, dst |-> dst, written |-> 0]

nFillBuffer(frames, pat) ==
  \E r \in {FillBufferResult(Globals, frames, pat)} :
    Return(r.g, [op |-> "nFillBuffer", frames |-> frames, pat |-> pat,
                 dst |-> r.dst, ret |-> r.written])

(***************************************************************************)
(* The probes: a temporary backend object is built from the path, asked    *)
(* and discarded.  Each gives the globals after the call and the value     *)
(* returned.                                                               *)
(***************************************************************************)
\* The libgme branch of nGetTrackLengthDirect and nGetTrackLength for the
\* track asked about.
GmeProbeLength(g, path, track) ==
  LET opened == gme_open_file(path, g.gSampleRate)
  IN IF opened.err \/ opened.emu = NULL THEN 0
     ELSE IF ~gme_track_info_ok(opened.emu, track) THEN 0
     ELSE MulDiv1000(GmeLengthMs(Files(path).lengths[track + 1]),
                     g.gSampleRate)

\* The libvgm branch of nGetTrackLengthDirect.
VgmProbeLength(g, path, allocOk) ==
  LET locLoader == FileLoader_Init(path, allocOk)
  IN IF locLoader = NULL THEN 0
     ELSE IF DataLoader_Load(locLoader).err # 0 THEN 0
     ELSE
       LET locPlayer == VGMPlayer_SetSampleRate(VGMPlayer_new, g.gSampleRate)
           file == VGMPlayer_LoadFile(locPlayer,
                                      DataLoader_Load(locLoader).loader)
       IN IF file.err # 0 THEN 0
          ELSE VGMPlayer_Tick2Sample(file.player,
                                     VGMPlayer_GetTotalTicks(file.player))

\* A probe that opens the file as the session: the property of C7 must tell
\* it from TrackLengthDirectResult.
TrackLengthDirectThroughSession(g, path, allocOk) ==
  [g |-> OpenResult(g, path, allocOk).g,
   ret |-> IF isGmeFormat(path) THEN GmeProbeLength(g, path, 0)
           ELSE VgmProbeLength(g, path, allocOk)]

TrackLengthDirectResult(g, path, allocOk) ==
  [g |-> g,
   ret |-> IF isGmeFormat(path) THEN GmeProbeLength(g, path, 0)
           ELSE VgmProbeLength(g, path, allocOk)]

nGetTrackLengthDirect(path, allocOk) ==
  LET r == TrackLengthDirectResult(Globals, path, allocOk)
  IN Return(r.g, [op |-> "nGetTrackLengthDirect", path |-> path,
                  ret |-> r.ret])

\* A probe that answers 0 for an index outside the file's tracks: the
\* property of C36 must tell it from TrackLengthResult.
TrackLengthResultRejecting(g, path, trackIndex, allocOk) ==
  IF isGmeFormat(path)
  THEN LET opened == gme_open_file(path, g.gSampleRate)
           trackCount == IF opened.err THEN 0 ELSE gme_track_count(opened.emu)
       IN [g |-> g,
           ret |-> IF trackIndex >= 0 /\ trackIndex < trackCount
                   THEN GmeProbeLength(g, path, trackIndex) ELSE 0]
  ELSE TrackLengthDirectResult(g, path, allocOk)

TrackLengthResult(g, path, trackIndex, allocOk) ==
  IF isGmeFormat(path)
  THEN LET opened == gme_open_file(path, g.gSampleRate)
           trackCount == IF opened.err THEN 0 ELSE gme_track_count(opened.emu)
           actualTrackIndex == IF trackIndex >= 0 /\ trackIndex < trackCount
                               THEN trackIndex ELSE 0
       IN [g |-> g, ret |-> GmeProbeLength(g, path, actualTrackIndex)]
  ELSE TrackLengthDirectResult(g, path, allocOk)

nGetTrackLength(path, trackIndex, allocOk) ==
  LET r == TrackLengthResult(Globals, path, trackIndex, allocOk)
  IN Return(r.g, [op |-> "nGetTrackLength", path |-> path,
                  trackIndex |-> trackIndex, allocOk |-> allocOk,
                  ret |-> r.ret])

KssTrackCountDirectResult(g, path) ==
  [g |-> g,
   ret |-> IF ~isKssFormat(path) THEN 1
           ELSE IF ~Files(path).readable THEN 1
           ELSE IF KSS_bin2kss(path) = NULL THEN 1
           ELSE KSS_bin2kss(path).trk_max - KSS_bin2kss(path).trk_min + 1]

nGetKssTrackCountDirect(path) ==
  LET r == KssTrackCountDirectResult(Globals, path)
  IN Return(r.g, [op |-> "nGetKssTrackCountDirect", path |-> path,
                  ret |-> r.ret])

KssTrackRangeResult(g, path) ==
  [g |-> g,
   ret |-> IF ~isKssFormat(path) THEN <<1, 1>>
           ELSE IF ~Files(path).readable THEN <<1, 1>>
           ELSE IF KSS_bin2kss(path) = NULL THEN <<1, 1>>
           ELSE <<KSS_bin2kss(path).trk_min, KSS_bin2kss(path).trk_max>>]

nGetKssTrackRange(path) ==
  LET r == KssTrackRangeResult(Globals, path)
  IN Return(r.g, [op |-> "nGetKssTrackRange", path |-> path, ret |-> r.ret])

(***************************************************************************)
(* Tags.  The string nGetTags returns is a run of fields, each followed by *)
(* the separator "|||"; it is modelled as the sequence of its fields.  A   *)
(* field converted from UTF-16 is a sequence of bytes.                     *)
(***************************************************************************)
\* fileData[ofs], -1 for an offset outside the buffer.
ByteAt(data, ofs) == IF ofs >= 0 /\ ofs < Len(data) THEN data[ofs + 1] ELSE -1

\* An encoder with no three-byte form: the property of C30 must tell it
\* from Utf8Of.
Utf8OfTwoBytes(codeUnit) ==
  IF codeUnit < 128 THEN <<codeUnit>>
  ELSE <<192 + (codeUnit \div 64), 128 + (codeUnit % 64)>>

\* The UTF-8 bytes of one code unit.
Utf8Of(codeUnit) ==
  IF codeUnit < 128 THEN <<codeUnit>>
  ELSE IF codeUnit < 2048
       THEN <<192 + (codeUnit \div 64), 128 + (codeUnit % 64)>>
  ELSE <<224 + (codeUnit \div 4096), 128 + ((codeUnit \div 64) % 64),
         128 + (codeUnit % 64)>>

\* utf16le_to_utf8(&fileData[ptr], end - ptr): the loop from ptr.  A
\* negative `end` stands for a length that wrapped: no end within reach.
RECURSIVE Utf16Loop(_, _, _, _)
Utf16Loop(data, ptr, end, result) ==
  IF end >= 0 /\ ~(ptr + 1 < end) THEN result
  ELSE IF ByteAt(data, ptr) < 0 \/ ByteAt(data, ptr + 1) < 0
       THEN [result EXCEPT !.oob = TRUE]
  ELSE LET codeUnit == ByteAt(data, ptr) + (256 * ByteAt(data, ptr + 1))
       IN IF codeUnit = 0 THEN result
          ELSE Utf16Loop(data, ptr + 2, end,
                         [result EXCEPT !.out = result.out \o Utf8Of(codeUnit)])

utf16le_to_utf8(data, start, byteLen) ==
  Utf16Loop(data, start, IF byteLen < 0 THEN -1 ELSE start + byteLen,
            [out |-> <<>>, oob |-> FALSE])

Gd3Keys == << "TITLE", "TITLE-JPN", "GAME", "GAME-JPN", "SYSTEM",
              "SYSTEM-JPN", "ARTIST", "ARTIST-JPN", "DATE", "ENCODED_BY",
              "COMMENT" >>

\* The inner while loop of readVgmGd3Tags: the cursor after the string.
RECURSIVE Gd3Scan(_, _, _)
Gd3Scan(data, pos, dataEnd) ==
  IF pos + 1 < dataEnd
  THEN IF ByteAt(data, pos) + (256 * ByteAt(data, pos + 1)) = 0
       THEN pos + 2
       ELSE Gd3Scan(data, pos + 2, dataEnd)
  ELSE pos

\* The for loop of readVgmGd3Tags from tag i (counted from 1).  The result
\* holds the fields emitted and, for each tag, the cursor before and after
\* its string and the byte length handed to utf16le_to_utf8 (pos - start - 2
\* is taken in UINT32: a negative difference stands for the wrapped one).
RECURSIVE Gd3Loop(_, _, _, _, _)
Gd3Loop(data, i, pos, dataEnd, result) ==
  IF i <= Len(Gd3Keys) /\ pos < dataEnd
  THEN LET next == Gd3Scan(data, pos, dataEnd)
           value == utf16le_to_utf8(data, pos, next - pos - 2)
       IN Gd3Loop(data, i + 1, next, dataEnd,
                  [tags |-> result.tags \o <<Gd3Keys[i], value.out>>,
                   calls |-> Append(result.calls,
                                    [start |-> pos, pos |-> next,
                                     byteLen |-> next - pos - 2,
                                     oob |-> value.oob])])
  ELSE result

\* The 32-bit little-endian value at an offset.
UInt32At(data, ofs) ==
  ByteAt(data, ofs) + (256 * ByteAt(data, ofs + 1))
    + (65536 * ByteAt(data, ofs + 2)) + (16777216 * ByteAt(data, ofs + 3))

\* readVgmGd3Tags with what it did on the way: `header` is the offset after
\* the last header byte read (0 when none was read).
Gd3Parse(file) ==
  IF file.gd3Ofs = 0 \/ file.gd3Ofs >= file.eofOfs
  THEN [tags |-> <<>>, calls |-> <<>>, header |-> 0]
  ELSE IF << ByteAt(file.data, file.gd3Ofs), ByteAt(file.data, file.gd3Ofs + 1),
             ByteAt(file.data, file.gd3Ofs + 2),
             ByteAt(file.data, file.gd3Ofs + 3) >> # <<71, 100, 51, 32>>
       THEN [tags |-> <<>>, calls |-> <<>>, header |-> file.gd3Ofs + 4]
  ELSE LET dataSize == UInt32At(file.data, file.gd3Ofs + 8)
           dataStart == file.gd3Ofs + 12
           dataEnd == IF dataStart + dataSize > file.eofOfs THEN file.eofOfs
                      ELSE dataStart + dataSize
           loop == Gd3Loop(file.data, 1, dataStart, dataEnd,
                           [tags |-> <<>>, calls |-> <<>>])
       IN [tags |-> loop.tags, calls |-> loop.calls,
           header |-> file.gd3Ofs + 12]

readVgmGd3Tags(file) == Gd3Parse(file).tags

TagsGme(info) ==
  << "TITLE", info.song, "TITLE-JPN", "", "GAME", info.game,
     "GAME-JPN", "", "SYSTEM", info.system, "SYSTEM-JPN", "",
     "ARTIST", info.author, "ARTIST-JPN", "", "DATE", info.copyright,
     "ENCODED_BY", info.dumper, "COMMENT", info.comment >>

TagsOpenmpt(meta) ==
  << "TITLE", meta.title, "GAME", meta.message, "GAME-JPN", "",
     "SYSTEM", IF meta.tracker # "" THEN meta.tracker ELSE "Tracker",
     "SYSTEM-JPN", "", "ARTIST", meta.artist, "ARTIST-JPN", "",
     "DATE", meta.date, "ENCODED_BY", "", "COMMENT", "" >>

\* The title of the first KSSINFO entry of the track, "" when there is none.
KssInfoTitle(info, track) ==
  LET hits == {i \in 1..Len(info) : info[i].song = track}
  IN IF hits = {} THEN ""
     ELSE info[CHOOSE i \in hits : \A j \in hits : i <= j].title

TagsKss(file, track) ==
  << "TITLE", IF file.kssTitle # "" THEN file.kssTitle
              ELSE KssInfoTitle(file.kssInfo, track),
     "TITLE-JPN", "", "GAME", file.kssTitle, "GAME-JPN", "",
     "SYSTEM", IF file.kssMode = 1 THEN "Sega Master System"
               ELSE IF file.kssMode = 2 THEN "Sega Game Gear" ELSE "MSX",
     "SYSTEM-JPN", "", "ARTIST", "", "ARTIST-JPN", "", "DATE", "",
     "ENCODED_BY", "", "COMMENT", "" >>

nGetTags(g) ==
  IF g.gPlayerType = "LIBVGM" /\ g.gVgmPlayer # NULL
  THEN IF g.gLoader # NULL /\ g.gLoader.loaded
       THEN readVgmGd3Tags(Files(g.gVgmPlayer.file))
       ELSE <<>>
  ELSE IF g.gPlayerType = "LIBGME" /\ g.gGmePlayer # NULL
  THEN IF gme_track_info_ok(g.gGmePlayer, g.gGmeTrackIndex)
       THEN TagsGme(Files(g.gGmePlayer.file).info)
       ELSE <<>>
  ELSE IF g.gPlayerType = "LIBOPENMPT" /\ g.gOpenmptModule # NULL
  THEN TagsOpenmpt(Files(g.gOpenmptModule.file).meta)
  ELSE IF g.gPlayerType = "LIBKSS" /\ g.gKss # NULL
  THEN TagsKss(Files(g.gKss.file), g.gKssTrackIndex)
  ELSE <<>>

(***************************************************************************)
(* The inputs the boundary calls are made with.                            *)
(***************************************************************************)
\* What libvgm emits: the extremes of the 32-bit range, the values next to
\* the 16-bit limits after the shift, and a ramp.
VgmPatterns ==
  { [l |-> INT32_MAX, r |-> INT32_MIN, step |-> 0],
    [l |-> INT16_MAX * 256 + 255, r |-> INT16_MIN * 256, step |-> 1],
    [l |-> 256, r |-> -256, step |-> 256] }

\* What the 16-bit backends emit.
PcmPatterns ==
  { [l |-> INT16_MAX, r |-> INT16_MAX, step |-> 0],
    [l |-> INT16_MIN, r |-> INT16_MIN, step |-> 0],
    [l |-> 1, r |-> 3, step |-> 1] }

Patterns(g) == IF g.gPlayerType = "LIBVGM" THEN VgmPatterns ELSE PcmPatterns

\* The frames the active adapter has rendered since it was positioned.
Rendered(g) ==
  IF g.gVgmPlayer # NULL THEN g.gVgmPlayer.pos
  ELSE IF g.gGmePlayer # NULL THEN g.gGmePlayer.pos
  ELSE IF g.gKssPlay # NULL THEN g.gKssPlay.pos
  ELSE IF g.gOpenmptModule # NULL
       THEN g.gOpenmptModule.pos \div TicksPerFrame(DEFAULT_SAMPLE_RATE)
  ELSE IF g.gAdlPlayer # NULL
       THEN g.gAdlPlayer.pos \div TicksPerFrame(DEFAULT_SAMPLE_RATE)
  ELSE 0

\* One pattern per kind of backend, for the specification of the session.
SessionPatterns(g) ==
  IF g.gPlayerType = "LIBVGM"
  THEN {[l |-> 256, r |-> -256, step |-> 256]}
  ELSE {[l |-> 1, r |-> 3, step |-> 1]}

FrameCounts == {-1, 0, 1, 2}

SeekPositions == {0, 1}

Speeds == {50, 100}

RomPaths == {"", "/roms"}

TrackArgs == (-1)..MaxTrackArg

(***************************************************************************)
(* Spec: the session under the boundary calls that open, close, position   *)
(* and render.  Rendering is offered while the write cursor stays within   *)
(* MaxExtraFrames.                                                         *)
(***************************************************************************)
Next ==
  \/ \E path \in Paths, allocOk \in BOOLEAN : nOpen(path, allocOk)
  \/ nClose
  \/ \E enabled \in BOOLEAN : nSetEndlessLoop(enabled)
  \/ nPlay
  \/ nStop
  \/ \E samplePos \in SeekPositions : nSeek(samplePos)
  \/ \E trackIndex \in TrackArgs : nSetTrack(trackIndex)
  \/ \E frames \in FrameCounts, pat \in SessionPatterns(Globals) :
       /\ gFftWriteIdx + frames <= MaxExtraFrames
       /\ nFillBuffer(frames, pat)

Spec == Init /\ [][Next]_vars

(***************************************************************************)
(* SpecProbe: the probes called on every path in every session an Open, a  *)
(* SetTrack and a short FillBuffer can leave.                              *)
(***************************************************************************)
NextProbe ==
  \/ \E path \in Paths : nOpen(path, TRUE)
  \/ nClose
  \/ \E trackIndex \in {1} : nSetTrack(trackIndex)
  \/ \E pat \in SessionPatterns(Globals) :
       /\ gFftWriteIdx = 0
       /\ nFillBuffer(1, pat)
  \/ \E path \in Paths, allocOk \in BOOLEAN :
       nGetTrackLengthDirect(path, allocOk)
  \/ \E path \in Paths, trackIndex \in TrackArgs, allocOk \in BOOLEAN :
       nGetTrackLength(path, trackIndex, allocOk)
  \/ \E path \in Paths : nGetKssTrackCountDirect(path)
  \/ \E path \in Paths : nGetKssTrackRange(path)

SpecProbe == Init /\ [][NextProbe]_vars

(***************************************************************************)
(* SpecRender: FillBuffer on one file of every backend, with every pattern *)
(* of samples: a few short calls, then one call of about the capacity of   *)
(* the ring buffer or more than one chunk.                                 *)
(***************************************************************************)
RenderPaths == {P_a_nsf, P_k_kss, P_t_mod, P_s_mid, P_v_vgm, P_w_vgz}

RenderFrameCounts == {0, 1, FFT_SIZE - 1, FFT_SIZE, MAX_FRAMES + 1}

RenderGuard(g, frames) ==
  IF frames < FFT_SIZE - 1
  THEN g.gFftWriteIdx = Rendered(g) /\ Rendered(g) + frames <= MaxLeadFrames
  ELSE g.gFftWriteIdx = Rendered(g) /\ Rendered(g) <= MaxLeadFrames

NextRender ==
  \/ \E path \in RenderPaths : nOpen(path, TRUE)
  \/ nClose
  \/ \E frames \in RenderFrameCounts, pat \in Patterns(Globals) :
       /\ RenderGuard(Globals, frames)
       /\ nFillBuffer(frames, pat)
  \/ nGetSpectrum

SpecRender == Init /\ [][NextRender]_vars

(***************************************************************************)
(* SpecSettings: the sticky settings set in closed and open sessions of    *)
(* every backend, with Open, Close, Seek, SetDeviceVolume and a short      *)
(* FillBuffer.                                                             *)
(***************************************************************************)
SettingsPaths == {P_l_gbs, P_k_kss, P_x_it, P_y_smf, P_w_vgz, P_c_spc}

SettingsSeekPositions == {0, 1, 2, 45, 100}

DeviceVolumes == {64}

NextSettings ==
  \/ \E path \in SettingsPaths : nOpen(path, TRUE)
  \/ nClose
  \/ \E rate \in SampleRates : nSetSampleRate(rate)
  \/ \E path \in RomPaths : nSetRomPath(path)
  \/ \E enabled \in BOOLEAN : nSetEndlessLoop(enabled)
  \/ \E speed \in Speeds : nSetPlaybackSpeed(speed)
  \/ \E samplePos \in SettingsSeekPositions : nSeek(samplePos)
  \/ \E vol \in DeviceVolumes : nSetDeviceVolume(0, vol)
  \/ \E pat \in SessionPatterns(Globals) :
       /\ gFftWriteIdx = 0
       /\ nFillBuffer(1, pat)

SpecSettings == Init /\ [][NextSettings]_vars

(***************************************************************************)
(* nFillBuffer on the audio thread and nGetSpectrum on the UI thread, each *)
(* taken one access to gFftRingBuffer or gFftWriteIdx at a time.  The two  *)
(* globals are plain variables: a read of one that races with its write    *)
(* gives the value before or the value after the write, and the reader's   *)
(* loop uses either the cursor it loaded in an earlier iteration or the    *)
(* one in memory.                                                          *)
(***************************************************************************)
\* nFillBuffer up to the first ring-buffer write: the backend has rendered
\* into dst.
FillBufferEnter(frames, pat) ==
  /\ audio = NULL
  /\ \E r \in {FillBufferResult(Globals, frames, pat)} :
       Update([r.g EXCEPT !.gFftRingBuffer = gFftRingBuffer,
                          !.gFftWriteIdx = gFftWriteIdx],
              call,
              [kind |-> "nFillBuffer", frames |-> frames, pat |-> pat,
               dst |-> r.dst, written |-> r.written, i |-> 0,
               pc |-> "ring", index |-> -1],
              ui)

\* gFftRingBuffer[gFftWriteIdx] = sample
FillBufferRingWrite ==
  /\ audio # NULL /\ audio.pc = "ring" /\ audio.i < audio.written
  /\ Update([Globals EXCEPT !.gFftRingBuffer =
                RingPut([ring |-> gFftRingBuffer, idx |-> gFftWriteIdx],
                        audio.dst[audio.i * 2] + audio.dst[audio.i * 2 + 1]).ring],
            call,
            [audio EXCEPT !.pc = "cursor", !.index = gFftWriteIdx],
            ui)

\* gFftWriteIdx = (gFftWriteIdx + 1) % FFT_SIZE
FillBufferCursorWrite ==
  /\ audio # NULL /\ audio.pc = "cursor"
  /\ Update([Globals EXCEPT !.gFftWriteIdx =
                RingPut([ring |-> gFftRingBuffer, idx |-> gFftWriteIdx],
                        gFftRingBuffer[gFftWriteIdx]).idx],
            call,
            [audio EXCEPT !.pc = "ring", !.i = audio.i + 1],
            ui)

FillBufferExit ==
  /\ audio # NULL /\ audio.pc = "ring" /\ audio.i = audio.written
  /\ Update(Globals,
            [op |-> "nFillBuffer", frames |-> audio.frames, pat |-> audio.pat,
             dst |-> audio.dst, ret |-> audio.written],
            NULL, ui)

\* nGetSpectrum up to its first read.
GetSpectrumEnter ==
  /\ ui = NULL
  /\ Update(Globals, call, audio,
            [kind |-> "nGetSpectrum", i |-> 0, cursor |-> gFftWriteIdx,
             index |-> -1, a |-> <<>>])

\* a[i] = gFftRingBuffer[(gFftWriteIdx + i) % n]
GetSpectrumRead ==
  /\ ui # NULL /\ ui.i < FFT_SIZE
  /\ \E cursor \in {ui.cursor, gFftWriteIdx} :
       LET index == (cursor + ui.i) % FFT_SIZE
       IN Update(Globals, call, audio,
                 [ui EXCEPT !.i = ui.i + 1, !.cursor = cursor,
                            !.index = index,
                            !.a = Append(ui.a, gFftRingBuffer[index])])

\* The rest of nGetSpectrum is a function of the window a.
GetSpectrumExit ==
  /\ ui # NULL /\ ui.i = FFT_SIZE
  /\ Update(Globals, [op |-> "nGetSpectrum", a |-> ui.a], audio, NULL)

(***************************************************************************)
(* SpecSpectrum: a session that has rendered nothing or all but one slot   *)
(* of the ring buffer, then FillBuffer calls of a few frames racing with   *)
(* GetSpectrum.                                                            *)
(***************************************************************************)
MaxRacingFrames == 1

SpectrumPaths == {P_a_nsf}

NextSpectrum ==
  \/ \E path \in SpectrumPaths :
       /\ audio = NULL /\ ui = NULL /\ gPlayerType = "NONE"
       /\ nOpen(path, TRUE)
  \/ \E pat \in SessionPatterns(Globals) :
       /\ audio = NULL /\ ui = NULL /\ Rendered(Globals) = 0
       /\ gPlayerType # "NONE"
       /\ nFillBuffer(FFT_SIZE - 1, pat)
  \/ \E frames \in 1..MaxRacingFrames, pat \in SessionPatterns(Globals) :
       /\ gPlayerType # "NONE"
       /\ (Rendered(Globals) % (FFT_SIZE - 1)) + frames <= MaxRacingFrames
       /\ FillBufferEnter(frames, pat)
  \/ FillBufferRingWrite
  \/ FillBufferCursorWrite
  \/ FillBufferExit
  \/ GetSpectrumEnter
  \/ GetSpectrumRead
  \/ GetSpectrumExit

SpecSpectrum == Init /\ [][NextSpectrum]_vars

(***************************************************************************)
(* SpecClassify: IsMultiTrack on a path for every listed extension, in     *)
(* lower case, in upper case and capitalised, and for paths the lists do   *)
(* not have; Open and Close on files of every classification.              *)
(***************************************************************************)
ToUpper(ext) ==
  [i \in 1..Len(ext) |->
     IF \E k \in 1..Len(LowerChars) : LowerChars[k] = ext[i]
     THEN UpperChars[CHOOSE k \in 1..Len(LowerChars) : LowerChars[k] = ext[i]]
     ELSE ext[i]]

Capitalised(ext) == <<ToUpper(ext)[1]>> \o SubSeq(ext, 2, Len(ext))

ListedExts == GmeExts \cup KssExts \cup OpenmptExts \cup MidiExts

UnlistedExts ==
  { <<"v","g","m">>, <<"v","g","z">>, <<"t","x","t">>, <<"n","s">>,
    <<"n","s","f","x">>, <<"k","s","s","2">>, <<"m","i","d","i","s">>,
    <<"n","s","f","e","a","b","c","d">>, <<"s","p","c","/","z">>, <<>> }

ClassifyPaths ==
  {<<"f", ".">> \o e : e \in ListedExts \cup UnlistedExts}
    \cup {<<"f", ".">> \o ToUpper(e) : e \in ListedExts \cup UnlistedExts}
    \cup {<<"f", ".">> \o Capitalised(e) : e \in ListedExts}
    \cup {<<"g", ".", "x", "m", ".">> \o e : e \in GmeExts \cup UnlistedExts}
    \cup ListedExts
    \cup {P_noext, P_dir_z, P_song}

ClassifyOpenPaths ==
  {P_a_nsf, P_b_NSF, P_k_kss, P_t_mod, P_s_mid, P_v_vgm, P_song, P_dir_z}

NextClassify ==
  \/ \E path \in ClassifyPaths : nIsMultiTrack(path)
  \/ \E path \in ClassifyOpenPaths : nOpen(path, TRUE)
  \/ nClose

SpecClassify == Init /\ [][NextClassify]_vars

(***************************************************************************)
(* The properties.                                                         *)
(***************************************************************************)
\* The backends with a live handle.
LiveBackends ==
  {t \in {"LIBVGM", "LIBGME", "LIBOPENMPT", "LIBKSS", "LIBADLMIDI"} :
     \/ t = "LIBVGM" /\ gVgmPlayer # NULL
     \/ t = "LIBGME" /\ gGmePlayer # NULL
     \/ t = "LIBOPENMPT" /\ gOpenmptModule # NULL
     \/ t = "LIBKSS" /\ (gKss # NULL \/ gKssPlay # NULL)
     \/ t = "LIBADLMIDI" /\ gAdlPlayer # NULL}

\* C1: in every reachable state at most one of the five backend handles
\* (the gKss/gKssPlay pair counting as one) is non-null, and gPlayerType
\* names exactly the backend whose handle is live: it is NONE if and only
\* if no handle is live.
C1_AtMostOneAdapterLive ==
  /\ Cardinality(LiveBackends) <= 1
  /\ (gPlayerType = "NONE") <=> (LiveBackends = {})
  /\ gPlayerType # "NONE" => LiveBackends = {gPlayerType}

\* An Open has succeeded on a libkss file: the pair of handles is live.
C1_Witness ==
  /\ call.op = "nOpen" /\ call.ret
  /\ gPlayerType = "LIBKSS" /\ gKss # NULL /\ gKssPlay # NULL

\* C2: whenever Open returns false the session is Closed with no partial
\* state: player type NONE, every backend handle and the loader released,
\* the track indices and the track counts 0.
C2_FailedOpenLeavesClosed ==
  (call.op = "nOpen" /\ ~call.ret) =>
    /\ gPlayerType = "NONE"
    /\ gVgmPlayer = NULL /\ gGmePlayer = NULL /\ gOpenmptModule = NULL
    /\ gKss = NULL /\ gKssPlay = NULL /\ gAdlPlayer = NULL
    /\ gLoader = NULL
    /\ gGmeTrackIndex = 0 /\ gGmeTrackCount = 0
    /\ gKssTrackIndex = 0 /\ gKssTrackCount = 0

\* C3: Close leaves every session variable, and with it every query, as in
\* a session that never opened anything and has the same sticky settings
\* (sample rate, search path, endless-loop flag, speed), whatever was
\* opened, rendered, sought or selected before.
C3_CloseRestoresFreshSession ==
  [][call'.op = "nClose" =>
       LET fresh == [InitialGlobals EXCEPT
                       !.gSampleRate = gSampleRate,
                       !.gRomPath = gRomPath,
                       !.gEndlessLoopMode = gEndlessLoopMode,
                       !.gPlaybackSpeed = gPlaybackSpeed]
       IN /\ Globals' = fresh
          /\ gFftRingBuffer' = ZeroRing /\ gFftWriteIdx' = 0
          /\ nIsEnded(Globals') = nIsEnded(fresh)
          /\ nGetTotalSamples(Globals') = nGetTotalSamples(fresh)
          /\ nGetCurrentSample(Globals') = nGetCurrentSample(fresh)
          /\ nGetTrackCount(Globals') = nGetTrackCount(fresh)
          /\ nGetCurrentTrack(Globals') = nGetCurrentTrack(fresh)
          /\ nGetTags(Globals') = nGetTags(fresh)
          /\ nGetDeviceCount(Globals') = nGetDeviceCount(fresh)
          /\ SpectrumWindow(Globals') = SpectrumWindow(fresh)]_vars

\* A Close has returned in a session whose endless-loop flag had been set.
C3_Witness ==
  /\ call.op = "nClose"
  /\ gPlayerType = "NONE" /\ gEndlessLoopMode
  /\ gFftWriteIdx = 0 /\ gFftRingBuffer = ZeroRing

\* C4 (as the code has it): on a Closed session IsEnded() returns false if
\* the endless-loop flag is set and true otherwise, GetTrackCount() returns
\* 1, GetDeviceVolume(id) returns 0x100, GetCurrentTrack(),
\* GetTotalSamples(), GetCurrentSample() and GetDeviceCount() return 0,
\* GetTags() and GetDeviceName(id) return the empty string, SetTrack(i)
\* returns false and FillBuffer(n) returns 0, the last two changing no
\* session state.
C4_ClosedSessionDefaults ==
  gPlayerType = "NONE" =>
    /\ nIsEnded(Globals) = ~gEndlessLoopMode
    /\ nGetTrackCount(Globals) = 1
    /\ nGetCurrentTrack(Globals) = 0
    /\ nGetTotalSamples(Globals) = 0
    /\ nGetCurrentSample(Globals) = 0
    /\ nGetDeviceCount(Globals) = 0
    /\ \A id \in 0..1 : /\ nGetDeviceVolume(Globals, id) = 256
                        /\ nGetDeviceName(Globals, id) = ""
    /\ nGetTags(Globals) = <<>>
    /\ \A i \in TrackArgs :
         SetTrackResult(Globals, i) = [g |-> Globals, ret |-> FALSE]
    /\ \A n \in FrameCounts, pat \in PcmPatterns :
         /\ FillBufferResult(Globals, n, pat).written = 0
         /\ FillBufferResult(Globals, n, pat).g = Globals

\* FillBuffer has been called for frames on a Closed session.
C4_Witness ==
  /\ call.op = "nFillBuffer" /\ call.frames > 0 /\ call.ret = 0
  /\ gPlayerType = "NONE"

\* C4 as stated: on a Closed session IsEnded() returns false, GetTrackCount()
\* and GetDeviceVolume(id) return 0, and the rest as above.
C4_AsStated ==
  gPlayerType = "NONE" =>
    /\ nIsEnded(Globals) = FALSE
    /\ nGetTrackCount(Globals) = 0
    /\ nGetCurrentTrack(Globals) = 0
    /\ nGetTotalSamples(Globals) = 0
    /\ nGetCurrentSample(Globals) = 0
    /\ nGetDeviceCount(Globals) = 0
    /\ \A id \in 0..1 : /\ nGetDeviceVolume(Globals, id) = 0
                        /\ nGetDeviceName(Globals, id) = ""
    /\ nGetTags(Globals) = <<>>
    /\ \A i \in TrackArgs : ~SetTrackResult(Globals, i).ret
    /\ \A n \in FrameCounts, pat \in PcmPatterns :
         FillBufferResult(Globals, n, pat).written = 0

\* C5 (as the code has it): on an open libgme or libkss session SetTrack(i)
\* returns true exactly when i is in the adapter's valid set (0 <= i <
\* GetTrackCount() for libgme, trk_min <= i <= trk_max, the file's own track
\* numbers, for libkss) and the backend starts the track; then
\* GetCurrentTrack() is i.  Otherwise it returns false and GetCurrentTrack()
\* is unchanged.
C5_SetTrackValidSet ==
  [][(call'.op = "nSetTrack" /\ gPlayerType \in {"LIBGME", "LIBKSS"}) =>
       LET i == call'.trackIndex
           valid == IF gPlayerType = "LIBGME"
                    THEN /\ 0 <= i /\ i < nGetTrackCount(Globals)
                         /\ i \notin Files(gGmePlayer.file).startErr
                    ELSE gKss.trk_min <= i /\ i <= gKss.trk_max
       IN /\ call'.ret = valid
          /\ nGetCurrentTrack(Globals') =
               IF valid THEN i ELSE nGetCurrentTrack(Globals)]_vars

\* SetTrack(n) has returned true on a libkss session with n tracks.
C5_Witness ==
  /\ call.op = "nSetTrack" /\ call.ret
  /\ gPlayerType = "LIBKSS"
  /\ call.trackIndex = nGetTrackCount(Globals)
  /\ nGetCurrentTrack(Globals) = call.trackIndex

\* C5 as stated: with GetTrackCount() = n, SetTrack(i) with 0 <= i < n
\* returns true and GetCurrentTrack() is i afterwards; SetTrack(i) with any
\* other i returns false and leaves GetCurrentTrack() unchanged.
C5_AsStated ==
  [][(call'.op = "nSetTrack" /\ gPlayerType \in {"LIBGME", "LIBKSS"}) =>
       LET i == call'.trackIndex
           inRange == 0 <= i /\ i < nGetTrackCount(Globals)
       IN /\ call'.ret = inRange
          /\ nGetCurrentTrack(Globals') =
               IF inRange THEN i ELSE nGetCurrentTrack(Globals)]_vars

\* C6: while the endless-loop flag is true IsEnded() returns false, in every
\* reachable state.
C6_EndlessNeverEnded == gEndlessLoopMode => nIsEnded(Globals) = FALSE

\* The flag is set and libvgm has rendered to its end of stream.
C6_Witness ==
  /\ gEndlessLoopMode
  /\ call.op = "nFillBuffer"
  /\ gPlayerType = "LIBVGM" /\ gVgmPlayer # NULL /\ gVgmPlayer.end

\* C7: the four probes leave every session variable as it was, for every
\* path and session, whether they succeed or fail.
C7_ProbesLeaveSession ==
  [][call'.op \in {"nGetTrackLengthDirect", "nGetTrackLength",
                   "nGetKssTrackCountDirect", "nGetKssTrackRange"}
       => Globals' = Globals]_vars

\* A probe of a libvgm file has returned its length while a libgme session
\* that has rendered a frame is open.
C7_Witness ==
  /\ call.op = "nGetTrackLengthDirect" /\ call.path = P_v_vgm /\ call.ret > 0
  /\ gPlayerType = "LIBGME" /\ gFftWriteIdx = 1

\* C8: on every open session GetTags() returns exactly 11 key/value pairs in
\* the key order TITLE, TITLE-JPN, GAME, GAME-JPN, SYSTEM, SYSTEM-JPN,
\* ARTIST, ARTIST-JPN, DATE, ENCODED_BY, COMMENT.
C8_TagsElevenPairs ==
  gPlayerType # "NONE" =>
    /\ Len(nGetTags(Globals)) = 2 * Len(Gd3Keys)
    /\ \A k \in 1..Len(Gd3Keys) : nGetTags(Globals)[2 * k - 1] = Gd3Keys[k]

\* C9 (as the code has it): every sample FillBuffer writes for libvgm is the
\* native value shifted right by 8 and saturated to -32768..32767.
C9_VgmSamplesSaturated ==
  (call.op = "nFillBuffer" /\ gPlayerType = "LIBVGM") =>
    \A k \in 0..(2 * call.ret - 1) :
      LET native == IF k % 2 = 0 THEN NativeFrame(call.pat, k \div 2).L
                    ELSE NativeFrame(call.pat, k \div 2).R
          shifted == native \div 256
          sample == call.dst[k]
      IN /\ sample >= -32768 /\ sample <= 32767
         /\ shifted > 32767 => sample = 32767
         /\ shifted < -32768 => sample = -32768
         /\ (shifted >= -32768 /\ shifted <= 32767) => sample = shifted

\* FillBuffer has written frames of libvgm at both extremes of the native
\* range.
C9_Witness ==
  /\ call.op = "nFillBuffer" /\ gPlayerType = "LIBVGM" /\ call.ret > 0
  /\ call.pat.l = INT32_MAX /\ call.pat.r = INT32_MIN
  /\ call.dst[0] = 32767 /\ call.dst[1] = -32768

\* C9 as stated: the absolute value of a sample never exceeds 32767.
C9_AsStated ==
  (call.op = "nFillBuffer" /\ gPlayerType = "LIBVGM") =>
    \A k \in 0..(2 * call.ret - 1) :
      call.dst[k] >= -32767 /\ call.dst[k] <= 32767

\* C10: a FillBuffer call leaves the write cursor at (cursor before + frames
\* written) modulo 1024, writes one slot per frame written, in order from
\* the cursor, and no other slot; the cursor is within 0..1023 in every
\* reachable state; after exactly 1024 frames it is where it was.
C10_CursorAdvance ==
  /\ [](gFftWriteIdx >= 0 /\ gFftWriteIdx <= 1023)
  /\ [][call'.op = "nFillBuffer" =>
          LET n == call'.ret
          IN /\ gFftWriteIdx' = (gFftWriteIdx + n) % 1024
             /\ n = 1024 => gFftWriteIdx' = gFftWriteIdx
             /\ \A k \in 0..(n - 1) :
                  k >= n - 1024 =>
                    gFftRingBuffer'[(gFftWriteIdx + k) % 1024] =
                      call'.dst[2 * k] + call'.dst[2 * k + 1]
             /\ \A slot \in 0..1023 :
                  ((slot - gFftWriteIdx) % 1024 >= n) =>
                    gFftRingBuffer'[slot] = gFftRingBuffer[slot]]_vars

\* A call has written exactly 1024 frames from cursor 1, and the cursor is
\* at 1 again.
C10_Witness ==
  /\ call.op = "nFillBuffer" /\ call.ret = FFT_SIZE
  /\ gFftWriteIdx = 1

\* The file the open session was opened from.
OpenPath ==
  IF gVgmPlayer # NULL THEN gVgmPlayer.file
  ELSE IF gGmePlayer # NULL THEN gGmePlayer.file
  ELSE IF gKss # NULL THEN gKss.file
  ELSE IF gOpenmptModule # NULL THEN gOpenmptModule.file
  ELSE IF gAdlPlayer # NULL THEN gAdlPlayer.file
  ELSE <<>>

\* C11: on a backend whose duration is an estimate (libgme, libkss,
\* libADLMIDI, libopenmpt), whenever the duration the backend reports or
\* the code derives from it is under 30 seconds, GetTotalSamples() is
\* 180 x the sample rate.
C11_DurationFloor ==
  /\ (gPlayerType = "LIBGME"
        /\ gme_track_info_ok(gGmePlayer, gGmeTrackIndex)) =>
       LET l == Files(gGmePlayer.file).lengths[gGmeTrackIndex + 1]
           derived == IF l.intro_length > 0 /\ l.loop_length > 0
                      THEN l.intro_length + 2 * l.loop_length
                      ELSE l.play_length
       IN derived < 30000 => nGetTotalSamples(Globals) = 180 * gSampleRate
  /\ gPlayerType = "LIBKSS" =>
       (KssInfoTime(Files(gKss.file).kssInfo, gKssTrackIndex) < 30000
          => nGetTotalSamples(Globals) = 180 * gSampleRate)
  /\ gPlayerType = "LIBADLMIDI" =>
       (adl_totalTimeLength(gAdlPlayer) < 30 * TicksPerSecond
          => nGetTotalSamples(Globals) = 180 * gSampleRate)
  /\ gPlayerType = "LIBOPENMPT" =>
       nGetTotalSamples(Globals) = 180 * gSampleRate

\* C12: GetTrackLengthDirect(path) is what GetTotalSamples() returns right
\* after a successful Open(path), and GetTrackLength(path, i) is what it
\* returns after Open(path) and a successful SetTrack(i).
C12_DurationPathsAgree ==
  /\ (call.op = "nOpen" /\ call.ret) =>
       TrackLengthDirectResult(Globals, call.path, TRUE).ret
         = nGetTotalSamples(Globals)
  /\ (call.op = "nSetTrack" /\ call.ret) =>
       TrackLengthResult(Globals, OpenPath, call.trackIndex, TRUE).ret
         = nGetTotalSamples(Globals)

\* C13: right after a successful Open on libvgm, libgme or libkss the new
\* adapter's playback speed is the stored playback speed multiplier.
C13_OpenAppliesSpeed ==
  (call.op = "nOpen" /\ call.ret) =>
    /\ gPlayerType = "LIBVGM" => gVgmPlayer.speed = gPlaybackSpeed
    /\ gPlayerType = "LIBGME" => gGmePlayer.tempo = gPlaybackSpeed
    /\ gPlayerType = "LIBKSS" => gKssPlay.speed = gPlaybackSpeed

\* C14: right after a successful Open of a libgme file the emulator is as
\* if SetEndlessLoop had been called with the current endless-loop flag:
\* silence detection is ignored and the automatic playback limit is
\* disabled exactly when the flag is on.
C14_OpenAppliesEndlessLoop ==
  (call.op = "nOpen" /\ call.ret /\ gPlayerType = "LIBGME") =>
    /\ gGmePlayer.ignoreSilence = gEndlessLoopMode
    /\ gGmePlayer.autoloadLimit = ~gEndlessLoopMode
    /\ Globals = SetEndlessLoopResult(Globals, gEndlessLoopMode)

\* C15: in every open session the adapter renders at the stored sample
\* rate, whatever the backend.
C15_AdapterRateIsStoredRate ==
  /\ (gPlayerType = "LIBVGM" /\ gVgmPlayer # NULL) => gVgmPlayer.rate = gSampleRate
  /\ (gPlayerType = "LIBGME" /\ gGmePlayer # NULL) => gGmePlayer.rate = gSampleRate
  /\ (gPlayerType = "LIBKSS" /\ gKssPlay # NULL) => gKssPlay.rate = gSampleRate
  /\ (gPlayerType = "LIBADLMIDI" /\ gAdlPlayer # NULL) =>
       gAdlPlayer.rate = gSampleRate

StickySettings(g) ==
  <<g.gEndlessLoopMode, g.gPlaybackSpeed, g.gSampleRate, g.gRomPath>>

\* C16: an Open (successful or failed) and a Close leave the endless-loop
\* flag, the playback speed multiplier, the stored sample rate and the
\* secondary search path as they were; GetEndlessLoop() and
\* GetPlaybackSpeed() return the value last set, whatever was called since;
\* a Close leaves the ring buffer all zeros, the write cursor 0 and the
\* track indices and counts 0.
C16_OpenCloseKeepSettings ==
  [][ /\ call'.op \in {"nOpen", "nClose"} =>
           StickySettings(Globals') = StickySettings(Globals)
      /\ nGetEndlessLoop(Globals') =
           IF call'.op = "nSetEndlessLoop" THEN call'.enabled
           ELSE nGetEndlessLoop(Globals)
      /\ nGetPlaybackSpeed(Globals') =
           IF call'.op = "nSetPlaybackSpeed" THEN call'.speed
           ELSE nGetPlaybackSpeed(Globals)
      /\ call'.op = "nClose" =>
           /\ gFftRingBuffer' = ZeroRing
           /\ gFftWriteIdx' = 0
           /\ gGmeTrackIndex' = 0 /\ gGmeTrackCount' = 0
           /\ gKssTrackIndex' = 0 /\ gKssTrackCount' = 0 ]_vars

\* A Close of a session with every setting off its default, a track other
\* than the first selected and a frame in the ring buffer.
C16_Witness ==
  /\ call.op = "nClose"
  /\ gEndlessLoopMode /\ gPlaybackSpeed = 50
  /\ gSampleRate # DEFAULT_SAMPLE_RATE /\ gRomPath # ""
  /\ gFftRingBuffer = ZeroRing /\ gFftWriteIdx = 0

\* Position samplePos is inside the track that is open.
InsideTrack(samplePos) ==
  /\ samplePos >= 0
  /\ \/ EndTicks(OpenPath) < 0
     \/ samplePos * TicksPerFrame(gSampleRate) <= EndTicks(OpenPath)

Abs(n) == IF n < 0 THEN -n ELSE n

\* C17: after Seek(p), p inside the track, GetCurrentSample() is within 1
\* frame of p on libvgm, libopenmpt and libADLMIDI; on libgme, which is
\* positioned and read in whole milliseconds, it is at most p and less
\* than two milliseconds of frames plus one below p; on libkss it is what
\* it was before the Seek.
C17_SeekThenCurrentSample ==
  [][ (call'.op = "nSeek" /\ InsideTrack(call'.samplePos)) =>
        LET p == call'.samplePos
            cur == nGetCurrentSample(Globals')
        IN /\ gPlayerType \in {"LIBVGM", "LIBOPENMPT", "LIBADLMIDI"} =>
                Abs(cur - p) <= 1
           /\ gPlayerType = "LIBGME" =>
                /\ cur <= p
                /\ (p - cur) * 1000 < 2 * gSampleRate + 1000
           /\ gPlayerType = "LIBKSS" => cur = nGetCurrentSample(Globals) ]_vars

\* A Seek(100) on libgme after which GetCurrentSample() is more than a
\* millisecond of frames short of 100.
C17_Witness ==
  /\ call.op = "nSeek" /\ call.samplePos = 100
  /\ gPlayerType = "LIBGME"
  /\ nGetCurrentSample(Globals) < 100 - (gSampleRate \div 1000)

\* C17 as stated: within 1 frame on every backend that seeks.
C17_AsStated ==
  [][ (call'.op = "nSeek" /\ InsideTrack(call'.samplePos)
         /\ gPlayerType \in {"LIBVGM", "LIBGME", "LIBOPENMPT", "LIBADLMIDI"}) =>
        Abs(nGetCurrentSample(Globals') - call'.samplePos) <= 1 ]_vars

\* C18: a Seek on a libkss session and a SetDeviceVolume on a session that
\* is not libvgm change nothing at all; a SetPlaybackSpeed on a libopenmpt
\* or libADLMIDI session changes the stored multiplier and nothing else.
C18_UnsupportedIgnored ==
  [][ /\ (call'.op = "nSeek" /\ gPlayerType = "LIBKSS") => Globals' = Globals
      /\ (call'.op = "nSetDeviceVolume" /\ gPlayerType # "LIBVGM") =>
           Globals' = Globals
      /\ (call'.op = "nSetPlaybackSpeed"
             /\ gPlayerType \in {"LIBOPENMPT", "LIBADLMIDI"}) =>
           Globals' = [Globals EXCEPT !.gPlaybackSpeed = call'.speed] ]_vars

\* A Seek(100) on a libkss session that has rendered a frame.
C18_Witness ==
  /\ call.op = "nSeek" /\ call.samplePos = 100
  /\ gPlayerType = "LIBKSS" /\ gKssPlay.pos = 1

\* The active backend is at the end of its stream.
AtEndOfStream(g) ==
  IF g.gPlayerType = "LIBVGM" /\ g.gVgmPlayer # NULL
  THEN g.gVgmPlayer.pos >=
         VGMPlayer_Tick2Sample(g.gVgmPlayer,
                               VGMPlayer_GetTotalTicks(g.gVgmPlayer))
  ELSE IF g.gPlayerType = "LIBGME" /\ g.gGmePlayer # NULL
  THEN gme_track_ended(g.gGmePlayer)
  ELSE IF g.gPlayerType = "LIBOPENMPT" /\ g.gOpenmptModule # NULL
  THEN /\ EndTicks(g.gOpenmptModule.file) >= 0
       /\ g.gOpenmptModule.pos >= EndTicks(g.gOpenmptModule.file)
  ELSE IF g.gPlayerType = "LIBKSS" /\ g.gKssPlay # NULL
  THEN KSSPLAY_get_stop_flag(g.gKssPlay)
  ELSE IF g.gPlayerType = "LIBADLMIDI" /\ g.gAdlPlayer # NULL
  THEN /\ adl_totalTimeLength(g.gAdlPlayer) > 0
       /\ adl_positionTell(g.gAdlPlayer) >= adl_totalTimeLength(g.gAdlPlayer)
  ELSE FALSE

\* The frames FillBuffer(n) would report in session g.
WrittenOf(g, n) ==
  FillBufferResult(g, n, CHOOSE pat \in SessionPatterns(g) : TRUE).written

\* C19: once the active backend is at the end of its stream, FillBuffer(n),
\* n > 0, reports 0 frames on libvgm, libopenmpt and libADLMIDI, and still
\* n frames (or 0 on a gme_play error) on libgme and libkss; with the
\* endless-loop flag off IsEnded() is true on every backend but
\* libopenmpt, where it is false; and only a Seek, SetTrack, Play, Open or
\* Close takes the backend off the end of its stream.
C19_RenderExhaustion ==
  [][ /\ AtEndOfStream(Globals') =>
           /\ gPlayerType' \in {"LIBVGM", "LIBOPENMPT", "LIBADLMIDI"} =>
                \A n \in {1, 2} : WrittenOf(Globals', n) = 0
           /\ gPlayerType' = "LIBKSS" =>
                \A n \in {1, 2} : WrittenOf(Globals', n) = n
           /\ gPlayerType' = "LIBGME" =>
                \A n \in {1, 2} :
                  WrittenOf(Globals', n) =
                    IF Files(gGmePlayer'.file).playErr THEN 0 ELSE n
           /\ ~gEndlessLoopMode' =>
                nIsEnded(Globals') = (gPlayerType' # "LIBOPENMPT")
      /\ (AtEndOfStream(Globals) /\ ~AtEndOfStream(Globals')) =>
           call'.op \in {"nSeek", "nSetTrack", "nPlay", "nOpen", "nClose"}
    ]_vars

\* A FillBuffer(1) on a libgme track that had already ended, reporting 1
\* frame, with IsEnded() true.
C19_Witness ==
  /\ call.op = "nFillBuffer" /\ call.frames = 1 /\ call.ret = 1
  /\ gPlayerType = "LIBGME"
  /\ Files(gGmePlayer.file).endFrame >= 0
  /\ gGmePlayer.pos > Files(gGmePlayer.file).endFrame
  /\ nIsEnded(Globals)

\* C19 as stated: at the end of the stream FillBuffer(n) reports fewer than
\* n frames and, with the endless-loop flag off, IsEnded() is true, on
\* every backend.
C19_AsStated ==
  AtEndOfStream(Globals) =>
    /\ \A n \in {1, 2} : WrittenOf(Globals, n) < n
    /\ ~gEndlessLoopMode => nIsEnded(Globals)

\* C20: in every open libvgm, libopenmpt or libADLMIDI session
\* GetTrackCount() is 1, GetCurrentTrack() is 0, and SetTrack(i), i other
\* than 0, returns false and changes nothing.
C20_SingleTrackBackends ==
  (gPlayerType \in {"LIBVGM", "LIBOPENMPT", "LIBADLMIDI"}
     /\ LiveBackends = {gPlayerType}) =>
    /\ nGetTrackCount(Globals) = 1
    /\ nGetCurrentTrack(Globals) = 0
    /\ \A i \in TrackArgs \ {0} :
         SetTrackResult(Globals, i) = [g |-> Globals, ret |-> FALSE]

\* A SetTrack(1) refused in a libvgm session.
C20_Witness ==
  /\ call.op = "nSetTrack" /\ call.trackIndex = 1 /\ ~call.ret
  /\ gPlayerType = "LIBVGM" /\ gVgmPlayer # NULL

\* C21: in every state whose player type is not libvgm GetDeviceCount() is
\* 0 and GetDeviceName(id) is the empty string for every id.
C21_NoDevicesOutsideVgm ==
  gPlayerType # "LIBVGM" =>
    /\ nGetDeviceCount(Globals) = 0
    /\ \A id \in {-1, 0, 1} : nGetDeviceName(Globals, id) = ""

\* The four tests of nOpen by the player type each leads to.
Matches(path, kind) ==
  CASE kind = "LIBGME" -> isGmeFormat(path)
    [] kind = "LIBKSS" -> isKssFormat(path)
    [] kind = "LIBOPENMPT" -> isOpenmptFormat(path)
    [] kind = "LIBADLMIDI" -> isMidiFormat(path)

TestedKinds == {"LIBGME", "LIBKSS", "LIBOPENMPT", "LIBADLMIDI"}

\* Every order in which the four tests can be made.
TestOrders ==
  {o \in [1..4 -> TestedKinds] : \A i, j \in 1..4 : o[i] = o[j] => i = j}

\* The classification when the tests are made in the order o.
FirstMatch(path, o) ==
  IF \E i \in 1..4 : Matches(path, o[i])
  THEN o[CHOOSE i \in 1..4 :
           /\ Matches(path, o[i])
           /\ \A j \in 1..(i - 1) : ~Matches(path, o[j])]
  ELSE "LIBVGM"

\* C22: the four extension lists are pairwise disjoint; every path passes
\* at most one of isGmeFormat, isKssFormat, isOpenmptFormat and
\* isMidiFormat, and whatever the order of the four tests the path gets the
\* classification nOpen gives it.
C22_ExtensionSetsDisjoint ==
  /\ GmeExts \cap KssExts = {} /\ GmeExts \cap OpenmptExts = {}
  /\ GmeExts \cap MidiExts = {} /\ KssExts \cap OpenmptExts = {}
  /\ KssExts \cap MidiExts = {} /\ OpenmptExts \cap MidiExts = {}
  /\ call.op \in {"nIsMultiTrack", "nOpen"} =>
       /\ Cardinality({k \in TestedKinds : Matches(call.path, k)}) <= 1
       /\ \A o \in TestOrders :
            FirstMatch(call.path, o) = BackendKind(call.path)

\* IsMultiTrack asked about "f.KSS", which only isKssFormat accepts.
C22_Witness ==
  /\ call.op = "nIsMultiTrack"
  /\ call.path = <<"f", ".", "K", "S", "S">>
  /\ {k \in TestedKinds : Matches(call.path, k)} = {"LIBKSS"}

\* The text after the last dot of a path that has a dot.
LastSegment(path) == SubSeq(path, strrchr(path, ".") + 1, Len(path))

HasDot(path) == strrchr(path, ".") # 0

EqualUpToCase(a, b) ==
  /\ Len(a) = Len(b)
  /\ \A i \in 1..Len(a) :
       \/ a[i] = b[i]
       \/ \E k \in 1..Len(UpperChars) :
            {a[i], b[i]} = {UpperChars[k], LowerChars[k]}

\* C23: two paths with a dot whose last dot-segments are equal up to letter
\* case get the same classification and the same IsMultiTrack answer, and
\* so do two paths with no dot; a path with no
\* dot or with an extension in none of the lists classifies as libvgm;
\* IsMultiTrack(path) is true exactly when the path classifies as libgme or
\* libkss; and a successful Open leaves the player type the path
\* classifies as.
C23_ClassificationByExtension ==
  /\ call.op \in {"nIsMultiTrack", "nOpen"} =>
       /\ \A q \in ClassifyPaths \cup ClassifyOpenPaths :
            (\/ ~HasDot(call.path) /\ ~HasDot(q)
             \/ /\ HasDot(call.path) /\ HasDot(q)
                /\ EqualUpToCase(LastSegment(call.path), LastSegment(q))) =>
              /\ BackendKind(q) = BackendKind(call.path)
              /\ IsMultiTrackResult(q) = IsMultiTrackResult(call.path)
       /\ (\/ ~HasDot(call.path)
           \/ \A e \in ListedExts :
                ~EqualUpToCase(LastSegment(call.path), e)) =>
            BackendKind(call.path) = "LIBVGM"
  /\ call.op = "nIsMultiTrack" =>
       call.ret = (BackendKind(call.path) \in {"LIBGME", "LIBKSS"})
  /\ (call.op = "nOpen" /\ call.ret) => gPlayerType = BackendKind(call.path)

\* IsMultiTrack("f.Nsfe") answering true.
C23_Witness ==
  /\ call.op = "nIsMultiTrack"
  /\ call.path = <<"f", ".", "N", "s", "f", "e">>
  /\ call.ret

\* C24: whatever the interleaving of the ring-buffer and cursor writes of
\* nFillBuffer with the reads of nGetSpectrum, the write cursor and every
\* index of the ring buffer that is read or written lie in 0..FFT_SIZE-1,
\* and the window read has FFT_SIZE elements.
C24_RingIndicesInRange ==
  /\ gFftWriteIdx \in 0..(FFT_SIZE - 1)
  /\ (audio # NULL /\ (audio.i > 0 \/ audio.pc = "cursor")) =>
       audio.index \in 0..(FFT_SIZE - 1)
  /\ (ui # NULL /\ ui.i > 0) =>
       /\ ui.index \in 0..(FFT_SIZE - 1)
       /\ ui.cursor \in 0..(FFT_SIZE - 1)
  /\ call.op = "nGetSpectrum" => Len(call.a) = FFT_SIZE

\* nGetSpectrum part of the way through its reads with the cursor it loaded
\* before nFillBuffer wrote the last slot and wrapped the cursor to 0.
C24_Witness ==
  /\ ui # NULL /\ audio # NULL
  /\ ui.i > 1 /\ ui.cursor = FFT_SIZE - 1 /\ ui.index = ui.i - 2
  /\ audio.index = FFT_SIZE - 1 /\ gFftWriteIdx = 0

\* The iterations of the libvgm loop of FillBuffer(frames) in session g:
\* the chunk asked of Render in each.
VgmChunks(g, frames, pat) ==
  VgmRenderLoop([player |-> g.gVgmPlayer,
                 dst |-> [k \in 0..(2 * frames - 1) |-> 0],
                 ring |-> g.gFftRingBuffer, idx |-> g.gFftWriteIdx,
                 written |-> 0, chunks |-> <<>>], pat, frames).chunks

\* C25: FillBuffer(n) returns framesWritten with 0 <= framesWritten <= n for
\* n > 0 and leaves the output array beyond the frames written as it was;
\* the libvgm loop asks Render for at most MAX_FRAMES frames and at most
\* the frames still missing in each iteration, and makes at most one
\* iteration more than the frames it writes (none more when it writes
\* all n); FillBuffer(n) with n <= 0 returns 0 and changes nothing.
C25_FillBufferBounded ==
  [][ call'.op = "nFillBuffer" =>
        LET n == call'.frames
        IN /\ n > 0 =>
                /\ call'.ret >= 0 /\ call'.ret <= n
                /\ DOMAIN call'.dst = 0..(2 * n - 1)
                /\ \A k \in DOMAIN call'.dst :
                     k >= 2 * call'.ret => call'.dst[k] = 0
           /\ (n > 0 /\ gPlayerType = "LIBVGM" /\ gVgmPlayer # NULL) =>
                LET chunks == VgmChunks(Globals, n, call'.pat)
                IN /\ \A j \in 1..Len(chunks) :
                        /\ chunks[j] >= 1 /\ chunks[j] <= MAX_FRAMES
                        /\ chunks[j] <= n - (j - 1)
                   /\ Len(chunks) <= call'.ret + 1
                   /\ Len(chunks) <= n
           /\ n <= 0 => (call'.ret = 0 /\ Globals' = Globals)
           /\ \A m \in {-1, 0} :
                FillBufferResult(Globals, m, call'.pat).g = Globals
                  /\ FillBufferResult(Globals, m, call'.pat).written = 0 ]_vars

\* A FillBuffer(MAX_FRAMES + 1) on a libvgm session that came back with
\* fewer frames than asked for.
C25_Witness ==
  /\ call.op = "nFillBuffer" /\ call.frames = MAX_FRAMES + 1
  /\ gPlayerType = "LIBVGM"
  /\ call.ret > 0 /\ call.ret < call.frames

\* C26: in a libgme session whose track information can be read,
\* GetTotalSamples() is estimate x sampleRate / 1000, where the estimate is
\* intro + 2 x loop when both are positive and the play length otherwise,
\* replaced by 180000 ms when under 30000 ms, all taken from the track
\* GetCurrentTrack() reports, which is the track the emulator plays.
C26_GmeTotalSamples ==
  (/\ gPlayerType = "LIBGME" /\ gGmePlayer # NULL
   /\ gme_track_info_ok(gGmePlayer, nGetCurrentTrack(Globals))) =>
    LET t == nGetCurrentTrack(Globals)
        info == Files(gGmePlayer.file).lengths[t + 1]
        estimate == IF info.intro_length > 0 /\ info.loop_length > 0
                    THEN info.intro_length + 2 * info.loop_length
                    ELSE info.play_length
        ms == IF estimate < 30000 THEN 180000 ELSE estimate
    IN /\ gGmePlayer.track = t
       /\ nGetTotalSamples(Globals) =
            (ms \div 1000) * gSampleRate
              + ((ms % 1000) * gSampleRate) \div 1000

\* After SetTrack(1) on "a.nsf" (intro 10 s, loop 20 s) at 44100 Hz,
\* GetTotalSamples() is 50 s of frames.
C26_Witness ==
  /\ call.op = "nSetTrack" /\ call.ret /\ call.trackIndex = 1
  /\ gPlayerType = "LIBGME" /\ nGetCurrentTrack(Globals) = 1
  /\ nGetTotalSamples(Globals) = 50 * DEFAULT_SAMPLE_RATE

\* C27: a successful Open of a libvgm file leaves the player playing, a
\* Stop leaves it stopped and a Play leaves it playing; the playing state
\* of a player changes in no other call; in every other session and in the
\* closed session Play and Stop change nothing; and neither changes the
\* player type, the current track, the ring buffer or its cursor.
C27_TransportFollowsCalls ==
  [][ /\ (call'.op = "nOpen" /\ call'.ret /\ gPlayerType' = "LIBVGM") =>
           gVgmPlayer'.play
      /\ (gPlayerType = "LIBVGM" /\ gVgmPlayer # NULL) =>
           /\ call'.op = "nStop" => ~gVgmPlayer'.play
           /\ call'.op = "nPlay" => gVgmPlayer'.play
           /\ (gVgmPlayer' # NULL /\ gVgmPlayer'.play # gVgmPlayer.play) =>
                call'.op \in {"nPlay", "nStop", "nOpen"}
      /\ (call'.op \in {"nPlay", "nStop"}
             /\ ~(gPlayerType = "LIBVGM" /\ gVgmPlayer # NULL)) =>
           Globals' = Globals
      /\ call'.op \in {"nPlay", "nStop"} =>
           /\ gPlayerType' = gPlayerType
           /\ nGetCurrentTrack(Globals') = nGetCurrentTrack(Globals)
           /\ gFftRingBuffer' = gFftRingBuffer
           /\ gFftWriteIdx' = gFftWriteIdx ]_vars

\* A Stop that left a libvgm player stopped, with a frame in the ring
\* buffer.
C27_Witness ==
  /\ call.op = "nStop"
  /\ gPlayerType = "LIBVGM" /\ gVgmPlayer # NULL /\ ~gVgmPlayer.play
  /\ gFftWriteIdx > 0

\* C28: GetSpectrum with no render inside it reads element i of its window
\* from slot (gFftWriteIdx + i) % FFT_SIZE and changes no global; right
\* after a FillBuffer that wrote at least FFT_SIZE frames the window is the
\* mono mix of the last FFT_SIZE frames written, the oldest first.
C28_SpectrumWindowOldestFirst ==
  [][ call'.op = "nGetSpectrum" =>
        /\ Globals' = Globals
        /\ Len(call'.a) = FFT_SIZE
        /\ \A i \in 0..(FFT_SIZE - 1) :
             call'.a[i + 1] = gFftRingBuffer[(gFftWriteIdx + i) % FFT_SIZE]
        /\ (call.op = "nFillBuffer" /\ call.ret >= FFT_SIZE) =>
             \A i \in 0..(FFT_SIZE - 1) :
               LET k == call.ret - FFT_SIZE + i
               IN call'.a[i + 1] = call.dst[2 * k] + call.dst[2 * k + 1] ]_vars

\* A window taken with the cursor at slot 1, after more frames than the
\* ring buffer holds: its last element is the sample in slot 0, and the
\* samples differ.
C28_Witness ==
  /\ call.op = "nGetSpectrum"
  /\ gFftWriteIdx = 1
  /\ call.a[FFT_SIZE] = gFftRingBuffer[0]
  /\ call.a[1] = gFftRingBuffer[1]
  /\ call.a[1] # call.a[FFT_SIZE]

\* ---------------------------------------------------------------------
\* The widths of the duration and position arithmetic.
\*
\* A C integer of n bytes is the sequence of its n bytes, the least
\* significant first, in two's complement: `int` has 4 bytes, `jlong` 8.
\* An operation on n bytes keeps the low n bytes of its result.
\* ---------------------------------------------------------------------

RECURSIVE ToBytes(_, _)
ToBytes(x, n) ==
  IF n = 0 THEN <<>> ELSE <<x % 256>> \o ToBytes(x \div 256, n - 1)

IsNegative(b) == b[Len(b)] >= 128

\* The value of bytes whose value fits 32 bits.
RECURSIVE FromBytes(_)
FromBytes(b) ==
  IF Len(b) = 1 THEN (IF b[1] >= 128 THEN b[1] - 256 ELSE b[1])
  ELSE b[1] + (256 * FromBytes(Tail(b)))

\* The conversion of a signed integer to a wider one.
SignExtend(b, n) ==
  b \o [i \in 1..(n - Len(b)) |-> IF IsNegative(b) THEN 255 ELSE 0]

\* The conversion of an unsigned integer to a wider one.
ZeroExtend(b, n) == b \o [i \in 1..(n - Len(b)) |-> 0]

RECURSIVE AddCarry(_, _, _)
AddCarry(a, b, carry) ==
  IF a = <<>> THEN <<>>
  ELSE \* the carry out of the last byte is dropped
       <<(a[1] + b[1] + carry) % 256>>
         \o AddCarry(Tail(a), Tail(b), (a[1] + b[1] + carry) \div 256)

AddBytes(a, b) == AddCarry(a, b, 0)

RECURSIVE MulCarry(_, _, _)
MulCarry(b, k, carry) ==
  IF b = <<>> THEN <<>>
  ELSE <<((b[1] * k) + carry) % 256>>
         \o MulCarry(Tail(b), k, ((b[1] * k) + carry) \div 256)

\* b * k in the width of b, for 0 <= k < 2^23.
MulBytes(b, k) == MulCarry(b, k, 0)

DivStep(hi, byte, k) ==
  [q |-> <<((hi.r * 256) + byte) \div k>> \o hi.q,
   r |-> ((hi.r * 256) + byte) % k]

\* Quotient and remainder of a non-negative b by k, for 0 < k < 2^23.
RECURSIVE DivRem(_, _)
DivRem(b, k) ==
  IF b = <<>> THEN [q |-> <<>>, r |-> 0]
  ELSE DivStep(DivRem(Tail(b), k), b[1], k)

DivBytes(b, k) == DivRem(b, k).q

RECURSIVE UnsignedLess(_, _)
UnsignedLess(a, b) ==
  IF a = <<>> THEN FALSE
  ELSE \/ a[Len(a)] < b[Len(b)]
       \/ /\ a[Len(a)] = b[Len(b)]
          /\ UnsignedLess(SubSeq(a, 1, Len(a) - 1), SubSeq(b, 1, Len(b) - 1))

\* a < b for two signed integers of one width.
SignedLess(a, b) ==
  IF IsNegative(a) # IsNegative(b) THEN IsNegative(a) ELSE UnsignedLess(a, b)

\* length_ms of the libgme branches as the code computes it: play_length,
\* intro_length and loop_length are `int`, and so is intro_ms + loop_ms * 2.
\* A sum above INT32_MAX is a signed overflow, which is undefined: the build
\* either keeps the low 32 bits or, having the conversion to jlong ahead,
\* computes the sum in a 64-bit register (widened).  The result is the
\* value the conversion to jlong sees, in 8 bytes.
GmeLengthInt(lengths, widened) ==
  LET n == IF widened THEN 8 ELSE 4
      intro_ms == SignExtend(ToBytes(lengths.intro_length, 4), n)
      loop_ms == SignExtend(ToBytes(lengths.loop_length, 4), n)
      length_ms ==
        IF lengths.intro_length > 0 /\ lengths.loop_length > 0
        THEN SignExtend(AddBytes(intro_ms, MulBytes(loop_ms, 2)), 8)
        ELSE SignExtend(ToBytes(lengths.play_length, 4), 8)
  IN IF SignedLess(length_ms, ToBytes(30000, 8))
     THEN ToBytes(180000, 8)
     ELSE length_ms

\* The same estimate in a width no sum of three `int` values can leave.
GmeLengthExact(lengths) ==
  LET intro_ms == SignExtend(ToBytes(lengths.intro_length, 4), 16)
      loop_ms == SignExtend(ToBytes(lengths.loop_length, 4), 16)
      length_ms ==
        IF lengths.intro_length > 0 /\ lengths.loop_length > 0
        THEN AddBytes(intro_ms, MulBytes(loop_ms, 2))
        ELSE SignExtend(ToBytes(lengths.play_length, 4), 16)
  IN IF SignedLess(length_ms, ToBytes(30000, 16))
     THEN ToBytes(180000, 16)
     ELSE length_ms

\* A product taken in `unsigned int`, the width of the two operands without
\* the conversion to jlong: the property of C29 must tell it from
\* SamplesOfMs.
SamplesOfMsInt(ms, rate) ==
  DivBytes(ZeroExtend(MulBytes(SubSeq(ms, 1, 4), rate), 8), 1000)

\* (jlong)ms * gSampleRate / 1000 for a jlong ms >= 0.
SamplesOfMs(ms, rate) == DivBytes(MulBytes(ms, rate), 1000)

\* (jlong)180 * gSampleRate
SamplesOfDefault(rate) == MulBytes(ToBytes(180, 8), rate)

\* ms * rate / 1000 and seconds * rate in a width no product of a 64-bit
\* and a 32-bit value can leave.
ExactSamplesOfMs(ms, rate) ==
  DivBytes(MulBytes(SignExtend(ms, 16), rate), 1000)

ExactSamplesOfSeconds(seconds, rate) == MulBytes(ToBytes(seconds, 16), rate)

\* The lengths and positions a backend reports, in milliseconds: the ends
\* of the `int` range, the two sides of the 30 s floor, the least length
\* whose product with 48000 leaves 32 bits, and the two sides of the least
\* loop length whose double leaves `int`.
WidthPlayLengths == {-1, 180000, INT32_MAX}

WidthIntroLengths == {0, 1, INT32_MAX}

WidthLoopLengths ==
  {1, 14999, 15000, 44740, 1073741823, 1073741824, INT32_MAX}

WidthPositions == {0, 1, 29999, 30000, 44740, 180000, 1073741824, INT32_MAX}

WidthRates == {8000, 44100, 48000}

GmeLengthSamples(play, intro, loop, rate, widened) ==
  LET lengths == [play_length |-> play, intro_length |-> intro,
                  loop_length |-> loop]
      length_ms == GmeLengthInt(lengths, widened)
  IN Return(Globals,
            [op |-> "GmeLengthSamples", lengths |-> lengths, rate |-> rate,
             widened |-> widened, length_ms |-> length_ms,
             ret |-> SamplesOfMs(length_ms, rate)])

GmePositionSamples(ms, rate) ==
  Return(Globals,
         [op |-> "GmePositionSamples", ms |-> ms, rate |-> rate,
          ret |-> SamplesOfMs(SignExtend(ToBytes(ms, 4), 8), rate)])

DefaultSamples(rate) ==
  Return(Globals,
         [op |-> "DefaultSamples", rate |-> rate,
          ret |-> SamplesOfDefault(rate)])

NextWidths ==
  \/ \E play \in WidthPlayLengths, intro \in WidthIntroLengths,
        loop \in WidthLoopLengths, rate \in WidthRates, widened \in BOOLEAN :
       GmeLengthSamples(play, intro, loop, rate, widened)
  \/ \E ms \in WidthPositions, rate \in WidthRates :
       GmePositionSamples(ms, rate)
  \/ \E rate \in WidthRates : DefaultSamples(rate)

SpecWidths == Init /\ [][NextWidths]_vars

\* The sum intro_length + 2 * loop_length stays inside `int`.
SumFitsInt(lengths) ==
  \/ ~(lengths.intro_length > 0 /\ lengths.loop_length > 0)
  \/ ~SignedLess(ToBytes(INT32_MAX, 16),
                 AddBytes(ToBytes(lengths.intro_length, 16),
                          MulBytes(ToBytes(lengths.loop_length, 16), 2)))

\* The lengths whose conversions the 32-bit integers of the model hold.
SmallLengths(lengths) ==
  /\ lengths.play_length <= 180000
  /\ lengths.intro_length <= 180000
  /\ lengths.loop_length <= 180000

ProductsExact ==
  /\ call'.op = "GmeLengthSamples" =>
       /\ ZeroExtend(call'.ret, 16)
            = ExactSamplesOfMs(call'.length_ms, call'.rate)
       /\ SmallLengths(call'.lengths) =>
            /\ FromBytes(call'.length_ms) = GmeLengthMs(call'.lengths)
            /\ FromBytes(call'.ret)
                 = MulDiv1000(GmeLengthMs(call'.lengths), call'.rate)
  /\ call'.op = "GmePositionSamples" =>
       /\ ZeroExtend(call'.ret, 16)
            = ExactSamplesOfMs(ToBytes(call'.ms, 8), call'.rate)
       /\ call'.ms <= 180000 =>
            FromBytes(call'.ret) = MulDiv1000(call'.ms, call'.rate)
  /\ call'.op = "DefaultSamples" =>
       /\ ZeroExtend(call'.ret, 16) = ExactSamplesOfSeconds(180, call'.rate)
       /\ FromBytes(call'.ret) = 180 * call'.rate

\* C29: at every sample rate up to 48000 and for every length or position
\* of the `int` range, the products milliseconds * sampleRate / 1000 and
\* 180 * sampleRate of GetTotalSamples, GetCurrentSample, GetTrackLength and
\* GetTrackLengthDirect equal their mathematical values; the sum
\* intro + 2 * loop equals its mathematical value whenever that value is at
\* most INT32_MAX, whichever way the build treats a signed overflow.
C29_ConversionsExact ==
  [][ /\ ProductsExact
      /\ (call'.op = "GmeLengthSamples" /\ SumFitsInt(call'.lengths)) =>
           SignExtend(call'.length_ms, 16) = GmeLengthExact(call'.lengths)
    ]_vars

C29_Witness ==
  /\ call.op = "GmeLengthSamples"
  /\ call.lengths.intro_length = 1
  /\ call.lengths.loop_length = 1073741823
  /\ ~call.widened
  /\ call.rate = 48000
  /\ FromBytes(call.length_ms) = INT32_MAX
  /\ call.ret[5] > 0

\* C29 as the specification states it: the sum is exact for every length of
\* the `int` range.
C29_AsStated ==
  [][ call'.op = "GmeLengthSamples" =>
        SignExtend(call'.length_ms, 16) = GmeLengthExact(call'.lengths) ]_vars

\* ---------------------------------------------------------------------
\* utf16le_to_utf8 on its own: the buffers are the little-endian bytes of
\* up to MaxUtf16Units code units, the byte range any range inside them.
\* ---------------------------------------------------------------------
MaxUtf16Units == 3

\* The terminator, the two sides of the one-, two- and three-byte forms, a
\* surrogate and the last code unit.
Utf16Units == {0, 127, 128, 2047, 2048, 55296, 65535}

RECURSIVE BytesOfUnits(_)
BytesOfUnits(units) ==
  IF units = <<>> THEN <<>>
  ELSE <<units[1] % 256, units[1] \div 256>> \o BytesOfUnits(Tail(units))

Utf16Buffers ==
  UNION {{BytesOfUnits(u) : u \in [1..n -> Utf16Units]} :
           n \in 0..MaxUtf16Units}

InitUtf16 ==
  /\ gPlayerType = "NONE"
  /\ gVgmPlayer = NULL
  /\ gGmePlayer = NULL
  /\ gOpenmptModule = NULL
  /\ gKss = NULL
  /\ gKssPlay = NULL
  /\ gAdlPlayer = NULL
  /\ gLoader = NULL
  /\ gSampleRate = DEFAULT_SAMPLE_RATE
  /\ gRomPath = ""
  /\ gGmeTrackIndex = 0
  /\ gGmeTrackCount = 0
  /\ gKssTrackIndex = 0
  /\ gKssTrackCount = 0
  /\ gFftRingBuffer = ZeroRing
  /\ gFftWriteIdx = 0
  /\ gEndlessLoopMode = FALSE
  /\ gPlaybackSpeed = 100
  /\ audio = NULL
  /\ ui = NULL
  /\ \E data \in Utf16Buffers :
       \E start \in 0..Min(2, Len(data)) :
         \E byteLen \in 0..(Len(data) - start) :
           call = [op |-> "input", data |-> data, start |-> start,
                   byteLen |-> byteLen]

Utf16Decode ==
  /\ call.op = "input"
  /\ Return(Globals,
            [op |-> "utf16le_to_utf8", data |-> call.data,
             start |-> call.start, byteLen |-> call.byteLen,
             ret |-> utf16le_to_utf8(call.data, call.start, call.byteLen)])

NextUtf16 == Utf16Decode

SpecUtf16 == InitUtf16 /\ [][NextUtf16]_vars

\* The code units a well-formed run of one-, two- and three-byte UTF-8
\* sequences stands for; <<-1>> ends the result at an ill-formed byte.
RECURSIVE Utf8Units(_)
Utf8Units(b) ==
  LET cont(i) == i <= Len(b) /\ b[i] >= 128 /\ b[i] < 192
  IN IF b = <<>> THEN <<>>
     ELSE IF b[1] < 128 THEN <<b[1]>> \o Utf8Units(Tail(b))
     ELSE IF b[1] >= 192 /\ b[1] < 224 /\ cont(2)
          THEN <<((b[1] - 192) * 64) + (b[2] - 128)>>
                 \o Utf8Units(SubSeq(b, 3, Len(b)))
     ELSE IF b[1] >= 224 /\ b[1] < 240 /\ cont(2) /\ cont(3)
          THEN <<((b[1] - 224) * 4096) + ((b[2] - 128) * 64) + (b[3] - 128)>>
                 \o Utf8Units(SubSeq(b, 4, Len(b)))
     ELSE <<-1>>

\* The little-endian code units of the whole pairs of a byte range, up to
\* the first zero unit.
RECURSIVE UnitsBeforeZero(_)
UnitsBeforeZero(range) ==
  IF Len(range) < 2 \/ range[1] + (256 * range[2]) = 0 THEN <<>>
  ELSE <<range[1] + (256 * range[2])>>
         \o UnitsBeforeZero(SubSeq(range, 3, Len(range)))

Utf8Size(u) == IF u < 128 THEN 1 ELSE IF u < 2048 THEN 2 ELSE 3

RECURSIVE SumOfSizes(_)
SumOfSizes(units) ==
  IF units = <<>> THEN 0 ELSE Utf8Size(units[1]) + SumOfSizes(Tail(units))

\* C30: utf16le_to_utf8 reads its byte range two bytes at a time as
\* little-endian code units up to the first zero unit or the last whole
\* pair, reads no byte outside the range (the result is that of the range
\* alone), and emits for each unit u the UTF-8 sequence of code point u: the
\* output decodes to the units read, in one byte for u < 0x80, two for
\* u < 0x800 and three otherwise.
C30_Utf16Decoding ==
  call.op = "utf16le_to_utf8" =>
    LET range == SubSeq(call.data, call.start + 1,
                        call.start + call.byteLen)
        units == UnitsBeforeZero(range)
    IN /\ ~call.ret.oob
       /\ call.ret = utf16le_to_utf8(range, 0, call.byteLen)
       /\ Utf8Units(call.ret.out) = units
       /\ Len(call.ret.out) = SumOfSizes(units)

C30_Witness ==
  /\ call.op = "utf16le_to_utf8"
  /\ call.data = BytesOfUnits(<<2047, 2048, 0>>)
  /\ call.start = 0
  /\ call.byteLen = 6
  /\ call.ret.out = <<223, 191, 224, 160, 128>>

\* ---------------------------------------------------------------------
\* readVgmGd3Tags on its own: the files hold a GD3 block at offset 1 whose
\* strings are up to MaxGd3Units code units, with or without a byte after
\* them; the declared data size and the end-of-file offset of the header
\* are any values up to the size of the file.
\* ---------------------------------------------------------------------
MaxGd3Units == 3

Gd3Payloads ==
  UNION {{BytesOfUnits(u) \o odd : u \in [1..n -> {0, 65}],
                                   odd \in {<<>>, <<66>>}} :
           n \in 0..MaxGd3Units}

Gd3File(payload, dataSize, eofOfs) ==
  [DefaultFile EXCEPT
     !.gd3Ofs = 1, !.eofOfs = eofOfs,
     !.data = <<0, 71, 100, 51, 32, 0, 1, 0, 0, dataSize, 0, 0, 0>>
                \o payload]

InitGd3 ==
  /\ gPlayerType = "NONE"
  /\ gVgmPlayer = NULL
  /\ gGmePlayer = NULL
  /\ gOpenmptModule = NULL
  /\ gKss = NULL
  /\ gKssPlay = NULL
  /\ gAdlPlayer = NULL
  /\ gLoader = NULL
  /\ gSampleRate = DEFAULT_SAMPLE_RATE
  /\ gRomPath = ""
  /\ gGmeTrackIndex = 0
  /\ gGmeTrackCount = 0
  /\ gKssTrackIndex = 0
  /\ gKssTrackCount = 0
  /\ gFftRingBuffer = ZeroRing
  /\ gFftWriteIdx = 0
  /\ gEndlessLoopMode = FALSE
  /\ gPlaybackSpeed = 100
  /\ audio = NULL
  /\ ui = NULL
  /\ \E payload \in Gd3Payloads :
       \E dataSize \in 0..(Len(payload) + 1) :
         \E eofOfs \in {12, 13 + Len(payload)} :
           call = [op |-> "input",
                   file |-> Gd3File(payload, dataSize, eofOfs)]

Gd3Read ==
  /\ call.op = "input"
  /\ Return(Globals, [op |-> "readVgmGd3Tags", file |-> call.file,
                      ret |-> Gd3Parse(call.file)])

NextGd3 == Gd3Read

SpecGd3 == InitGd3 /\ [][NextGd3]_vars

\* C31: readVgmGd3Tags reads the header of the block and every string below
\* the end-of-file offset, its cursor advances on every tag it emits, and
\* the byte length it hands to utf16le_to_utf8 is never negative (wrapped).
C31_Gd3ParseInRange ==
  call.op = "readVgmGd3Tags" =>
    /\ call.ret.header <= call.file.eofOfs
    /\ \A k \in 1..Len(call.ret.calls) :
         /\ call.ret.calls[k].pos > call.ret.calls[k].start
         /\ call.ret.calls[k].byteLen >= 0
         /\ call.ret.calls[k].start + call.ret.calls[k].byteLen
              <= call.file.eofOfs
         /\ ~call.ret.calls[k].oob

(***************************************************************************)
(* nFillBuffer on the audio thread and nClose on another thread, each      *)
(* taken one access to the adapter handle at a time.  No lock orders the   *)
(* two: cleanup destroys the adapter and then clears its handle, and       *)
(* nFillBuffer tests the handle and then renders from it.                  *)
(***************************************************************************)
\* The handle nFillBuffer tests and renders from, by player type.
RenderHandle(type) ==
  CASE type = "LIBVGM" -> "gVgmPlayer"
    [] type = "LIBGME" -> "gGmePlayer"
    [] type = "LIBOPENMPT" -> "gOpenmptModule"
    [] type = "LIBKSS" -> "gKssPlay"
    [] type = "LIBADLMIDI" -> "gAdlPlayer"

\* nFillBuffer up to the test of the player type and the handle: it goes on
\* to render, or returns 0 when no branch is taken.  A handle whose adapter
\* cleanup has destroyed and not yet cleared passes the test.
TeardownFillCheck(frames) ==
  /\ audio = NULL
  /\ IF gPlayerType # "NONE" /\ Globals[RenderHandle(gPlayerType)] # NULL
     THEN Update(Globals, call,
                 [kind |-> "nFillBuffer", pc |-> "render", frames |-> frames,
                  freed |-> (ui.kind = "cleanup" /\ ui.pc = "deleted")],
                 ui)
     ELSE Update(Globals,
                 [op |-> "nFillBuffer", frames |-> frames, used |-> "none",
                  ret |-> 0],
                 audio, ui)

\* The render call of the branch taken and the rest of nFillBuffer.  To
\* render from a destroyed adapter is undefined: the call may write nothing
\* or all the frames.
TeardownFillRender ==
  /\ audio.kind = "nFillBuffer" /\ audio.pc = "render"
  /\ IF audio.freed
     THEN \E written \in {0, audio.frames} :
            Update(Globals,
                   [op |-> "nFillBuffer", frames |-> audio.frames,
                    used |-> IF gPlayerType = "NONE"
                                  \/ Globals[RenderHandle(gPlayerType)] = NULL
                             THEN "cleared" ELSE "destroyed",
                    ret |-> written],
                   NULL, ui)
     ELSE \E pat \in SessionPatterns(Globals) :
            \E r \in {FillBufferResult(Globals, audio.frames, pat)} :
              Update(r.g,
                     [op |-> "nFillBuffer", frames |-> audio.frames,
                      used |-> "live", ret |-> r.written],
                     NULL, ui)

\* cleanup up to the destruction of the adapter of the open session
\* (delete, gme_delete, openmpt_module_destroy, KSSPLAY_delete, adl_close).
CleanupDelete ==
  /\ ui = NULL
  /\ gPlayerType # "NONE" /\ Globals[RenderHandle(gPlayerType)] # NULL
  /\ Update(Globals, call,
            IF audio.kind = "nFillBuffer" THEN [audio EXCEPT !.freed = TRUE]
            ELSE audio,
            [kind |-> "cleanup", pc |-> "deleted"])

\* handle = nullptr
CleanupClear ==
  /\ ui.kind = "cleanup" /\ ui.pc = "deleted"
  /\ Update([Globals EXCEPT ![RenderHandle(gPlayerType)] = NULL], call, audio,
            [ui EXCEPT !.pc = "cleared"])

\* The rest of cleanup and the return of nClose.
CleanupExit ==
  /\ ui.kind = "cleanup" /\ ui.pc = "cleared"
  /\ Update(cleanup(Globals), [op |-> "nClose"], audio, NULL)

MaxTeardownFrames == 2

TeardownPaths == {P_v_vgm, P_a_nsf, P_t_mod, P_k_kss, P_s_mid}

NextTeardown ==
  \/ \E path \in TeardownPaths :
       /\ audio = NULL /\ ui = NULL /\ gPlayerType = "NONE"
       /\ nOpen(path, TRUE)
  \/ \E frames \in 1..MaxTeardownFrames :
       /\ Rendered(Globals) + frames <= MaxTeardownFrames
       /\ TeardownFillCheck(frames)
  \/ TeardownFillRender
  \/ CleanupDelete
  \/ CleanupClear
  \/ CleanupExit

SpecTeardown == Init /\ [][NextTeardown]_vars

\* C32: with nClose running beside nFillBuffer, every nFillBuffer that took
\* a branch rendered from a live adapter, never from one cleanup had
\* destroyed or cleared after the test.
C32_NoRenderAfterCleanup ==
  call.op = "nFillBuffer" => call.used \in {"live", "none"}

\* C33: in every open session of a multi-track backend the current track is
\* an index nSetTrack accepts: 0 <= gGmeTrackIndex < gGmeTrackCount for
\* libgme, trk_min <= gKssTrackIndex <= trk_max for libkss.
C33_CurrentTrackAccepted ==
  /\ (gPlayerType = "LIBGME" /\ gGmePlayer # NULL) =>
       (gGmeTrackIndex >= 0 /\ gGmeTrackIndex < gGmeTrackCount)
  /\ (gPlayerType = "LIBKSS" /\ gKssPlay # NULL /\ gKss # NULL) =>
       (gKssTrackIndex >= gKss.trk_min /\ gKssTrackIndex <= gKss.trk_max)

\* C34: nGetKssTrackCountDirect(path) of the KSS file the session has open
\* returns the track count nGetTrackCount reports for the session, and that
\* count is max - min + 1 of the pair nGetKssTrackRange(path) returns.
C34_KssTrackCountsAgree ==
  [][ ( /\ call'.op = "nGetKssTrackCountDirect"
        /\ gPlayerType = "LIBKSS" /\ gKss # NULL
        /\ gKss.file = call'.path ) =>
        /\ call'.ret = nGetTrackCount(Globals')
        /\ call'.ret = KssTrackRangeResult(Globals', call'.path).ret[2]
                         - KssTrackRangeResult(Globals', call'.path).ret[1] + 1
    ]_vars

\* C35: nSetTrack(i) on a closed session and on a libvgm, libopenmpt or
\* libADLMIDI session returns false and changes no global, for every i; on
\* a libgme session an nSetTrack(i) whose gme_start_track fails returns
\* false and leaves the current track as it was.
C35_SetTrackRefused ==
  [][ call'.op = "nSetTrack" =>
        /\ gPlayerType \notin {"LIBGME", "LIBKSS"} =>
             (~call'.ret /\ Globals' = Globals)
        /\ ( /\ gPlayerType = "LIBGME" /\ gGmePlayer # NULL
             /\ gme_start_track(gGmePlayer, call'.trackIndex).err ) =>
             /\ ~call'.ret
             /\ nGetCurrentTrack(Globals') = nGetCurrentTrack(Globals)
    ]_vars

C35_Witness ==
  /\ call.op = "nSetTrack"
  /\ call.trackIndex = 2
  /\ ~call.ret
  /\ gPlayerType = "LIBGME"
  /\ gGmeTrackCount > 2
  /\ gme_start_track(gGmePlayer, 2).err
  /\ nGetCurrentTrack(Globals) = 1

\* C36: nGetTrackLength(path, i) on a file libgme opens returns the length
\* estimate of track i when 0 <= i < the file's track count and that of
\* track 0 for every other i, a positive number of samples; on a path that
\* is not of a libgme format it returns what nGetTrackLengthDirect(path)
\* returns, whatever i is.
C36_TrackLengthByIndex ==
  [][ call'.op = "nGetTrackLength" =>
        LET path == call'.path
            i == call'.trackIndex
            track == IF i >= 0 /\ i < Files(path).trackCount THEN i ELSE 0
        IN /\ (isGmeFormat(path) /\ ~gme_open_file(path, gSampleRate).err) =>
                /\ call'.ret = MulDiv1000(
                                 GmeLengthMs(Files(path).lengths[track + 1]),
                                 gSampleRate)
                /\ call'.ret > 0
           /\ ~isGmeFormat(path) =>
                call'.ret
                  = TrackLengthDirectResult(Globals, path, call'.allocOk).ret
    ]_vars

C36_Witness ==
  /\ call.op = "nGetTrackLength"
  /\ call.path = P_a_nsf
  /\ call.trackIndex = -1
  /\ call.ret = 180 * gSampleRate
  /\ call.ret # MulDiv1000(GmeLengthMs(Files(P_a_nsf).lengths[2]), gSampleRate)

====
